---- MODULE Spec2Model ----
(***************************************************************************)
(* hubSpotAnalysis (index.js): cursor pagination, batch chunking and the   *)
(* incremental form-submission cache, as state machines.                   *)
(*                                                                         *)
(* Conventions.  A JavaScript null/undefined is the string Null.  A Map is *)
(* a function whose DOMAIN is the set of its keys.  An async generator is  *)
(* a record with a program counter pc; one action is the code between two  *)
(* suspension points (await / yield).                                      *)
(***************************************************************************)
EXTENDS Integers, Sequences, FiniteSets, TLC

Null == "null"

(* ---- bounds of the model ---------------------------------------------- *)
MaxPages == 3        \* an upstream holds 1..MaxPages pages
MaxPageLen == 2      \* a page holds 0..MaxPageLen items
MaxItems == 2        \* submissions upstream in the paginator specification
MaxConfigured == 3   \* maxContacts / maxSubmissions range over 0..MaxConfigured
MaxTs == 3           \* timestamps (ms) range over 1..MaxTs, the cutoff over 0..MaxTs
MaxWindows == 2      \* getAssociationIds is given up to MaxWindows full windows of ids (+1)
MaxCached == 1       \* merge specification: entries per email in the cache before the merges
MaxFresh == 2        \* merge specification: entries per email in delta A
MaxOther == 1        \* merge specification: entries per email in delta B
MaxMerges == 2       \* merges applied in a row in the merge specification
MaxRuns == 2         \* runs of buildFormSubmissionsByEmail in a row
MaxRunItems == 2     \* submissions the upstream holds for the first form
MaxForms == 3        \* forms of the account in the full-fetch specification
MaxPageContacts == 3 \* contacts on the page given to buildAssociations
MaxLogPages == 2     \* pages of one contact's event log
MaxPipelines == 2    \* deal pipelines of the account
MaxMainPages == 2    \* contact pages main walks in the call-order specification
MaxDeals == 2        \* deals associated with one contact

(* ---- small helpers ---------------------------------------------------- *)
Min(a, b) == IF a < b THEN a ELSE b

RECURSIVE Flatten(_)
Flatten(pages) ==
  IF pages = <<>> THEN <<>> ELSE Head(pages) \o Flatten(Tail(pages))

Take(s, n) == SubSeq(s, 1, Min(n, Len(s)))

(* map.get(email) || []                                                    *)
ListAt(byEmail, email) == IF email \in DOMAIN byEmail THEN byEmail[email] ELSE <<>>

RECURSIVE SumSeq(_)
SumSeq(s) == IF s = <<>> THEN 0 ELSE Head(s) + SumSeq(Tail(s))

(* ---- the upstream: a finite sequence of pages behind a cursor --------- *)
(* The cursor handed out with page k is k (the number of pages served so   *)
(* far), a truthy non-null token; the last page carries no token.  A first *)
(* request carries no cursor; NoCursor stands for the absent cursor.       *)
NoCursor == 0

UpstreamResults(pages, after) == pages[after + 1]

UpstreamNext(pages, after) == IF after + 1 < Len(pages) THEN after + 1 ELSE NoCursor

(* ---- parseSubmittedAt -------------------------------------------------- *)
(* A raw submittedAt is [kind, ms]: kind "null" (null/undefined), "number" *)
(* (a JS number of ms), "iso" (a date string that Date parses to ms) or    *)
(* "bad" (a string Date cannot parse: getTime() is NaN).                   *)
(* The null result of the parse is NoMs; real timestamps are positive.     *)
NoTs == [kind |-> "null", ms |-> 0]
NoMs == 0 - 1

(* Variant: only numbers are understood, date strings are not parsed.      *)
parseSubmittedAtNumbersOnly(submittedAt) ==
  IF submittedAt.kind = "number" THEN submittedAt.ms ELSE NoMs

parseSubmittedAt(submittedAt) ==
  IF submittedAt.kind = "null" THEN NoMs
  ELSE IF submittedAt.kind = "number" THEN submittedAt.ms
  ELSE IF submittedAt.kind = "iso" THEN submittedAt.ms
  ELSE NoMs

(* ---- fetchFormSubmissions (async generator) --------------------------- *)
(* Variant of the loop below: the maximum is tested with > instead of >=.  *)
RECURSIVE SubmissionsLoopLateStop(_, _, _, _, _, _, _, _)
SubmissionsLoopLateStop(results, i, yielded, out, formGuid, formName, maxSubmissions, cutoffMs) ==
  IF i > Len(results)
  THEN [out |-> out, yielded |-> yielded, returned |-> FALSE]
  ELSE LET sub == results[i]
           submittedMs == parseSubmittedAt(sub.submittedAt)
       IN IF cutoffMs > 0 /\ submittedMs # NoMs /\ submittedMs < cutoffMs
          THEN [out |-> out, yielded |-> yielded, returned |-> TRUE]
          ELSE LET item == [formGuid |-> formGuid, formName |-> formName] @@ sub
               IN IF maxSubmissions > 0 /\ yielded + 1 > maxSubmissions
                  THEN [out |-> Append(out, item), yielded |-> yielded + 1,
                        returned |-> TRUE]
                  ELSE SubmissionsLoopLateStop(results, i + 1, yielded + 1,
                                               Append(out, item), formGuid, formName,
                                               maxSubmissions, cutoffMs)

(* The for-loop over one page: [out, yielded, returned].                   *)
RECURSIVE SubmissionsLoop(_, _, _, _, _, _, _, _)
SubmissionsLoop(results, i, yielded, out, formGuid, formName, maxSubmissions, cutoffMs) ==
  IF i > Len(results)
  THEN [out |-> out, yielded |-> yielded, returned |-> FALSE]
  ELSE LET sub == results[i]
           submittedMs == parseSubmittedAt(sub.submittedAt)
       IN IF cutoffMs > 0 /\ submittedMs # NoMs /\ submittedMs < cutoffMs
          THEN [out |-> out, yielded |-> yielded, returned |-> TRUE]
          ELSE LET item == [formGuid |-> formGuid, formName |-> formName] @@ sub
               IN IF maxSubmissions > 0 /\ yielded + 1 >= maxSubmissions
                  THEN [out |-> Append(out, item), yielded |-> yielded + 1,
                        returned |-> TRUE]
                  ELSE SubmissionsLoop(results, i + 1, yielded + 1, Append(out, item),
                                       formGuid, formName, maxSubmissions, cutoffMs)

FsInit == [pc |-> "fetch", after |-> NoCursor, yielded |-> 0, out |-> <<>>, requests |-> 0]
FsIdle == [pc |-> "idle", after |-> NoCursor, yielded |-> 0, out |-> <<>>, requests |-> 0]

(* One pass from the fetch to the next suspension: the response arrives    *)
(* (ok or not), the page is walked, the cursor is read.                    *)
FsFetchStep(g, pages, ok, formGuid, formName, maxSubmissions, cutoffMs) ==
  LET g1 == [g EXCEPT !.requests = @ + 1] IN
  IF ~ok THEN [g1 EXCEPT !.pc = "failed"]
  ELSE LET results == UpstreamResults(pages, g.after) IN
       IF Len(results) = 0 THEN [g1 EXCEPT !.pc = "done"]
       ELSE LET r == SubmissionsLoop(results, 1, g.yielded, g.out, formGuid, formName,
                                     maxSubmissions, cutoffMs)
                next == UpstreamNext(pages, g.after)
                g2 == [g1 EXCEPT !.out = r.out, !.yielded = r.yielded]
            IN IF r.returned THEN [g2 EXCEPT !.pc = "done"]
               ELSE IF next = NoCursor THEN [g2 EXCEPT !.pc = "done"]
               ELSE [g2 EXCEPT !.after = next, !.pc = "sleep"]

FsSleepStep(g) == [g EXCEPT !.pc = "fetch"]

(* ---- searchContacts (async generator) --------------------------------- *)
ScInit == [pc |-> "search", after |-> NoCursor, totalFetched |-> 0, out |-> <<>>,
           pagesOut |-> <<>>, requests |-> 0]
ScIdle == [pc |-> "idle", after |-> NoCursor, totalFetched |-> 0, out |-> <<>>,
           pagesOut |-> <<>>, requests |-> 0]

(* Variant of the step below: the trim keeps one item too many.            *)
ScSearchStepTrimOff(g, pages, ok, maxContacts) ==
  LET g1 == [g EXCEPT !.requests = @ + 1] IN
  IF ~ok THEN [g1 EXCEPT !.pc = "failed"]
  ELSE LET results == UpstreamResults(pages, g.after) IN
       IF Len(results) = 0 THEN [g1 EXCEPT !.pc = "done"]
       ELSE LET total == g.totalFetched + Len(results) IN
            IF maxContacts > 0 /\ total > maxContacts
            THEN LET trim == total - maxContacts - 1
                     page == SubSeq(results, 1, Len(results) - trim)
                 IN [g1 EXCEPT !.totalFetched = total,
                               !.out = @ \o page,
                               !.pagesOut = Append(@, page),
                               !.pc = "yieldedLast"]
            ELSE [g1 EXCEPT !.totalFetched = total,
                            !.out = @ \o results,
                            !.pagesOut = Append(@, results),
                            !.pc = "yielded"]

(* Variant of the step below: the loop goes on after the trimmed page.     *)
ScSearchStepNoBreak(g, pages, ok, maxContacts) ==
  LET g1 == [g EXCEPT !.requests = @ + 1] IN
  IF ~ok THEN [g1 EXCEPT !.pc = "failed"]
  ELSE LET results == UpstreamResults(pages, g.after) IN
       IF Len(results) = 0 THEN [g1 EXCEPT !.pc = "done"]
       ELSE LET total == g.totalFetched + Len(results) IN
            IF maxContacts > 0 /\ total > maxContacts
            THEN LET keep == maxContacts - Min(maxContacts, g.totalFetched)
                     page == Take(results, keep)
                 IN [g1 EXCEPT !.totalFetched = total,
                               !.out = @ \o page,
                               !.pagesOut = Append(@, page),
                               !.pc = "yielded"]
            ELSE [g1 EXCEPT !.totalFetched = total,
                            !.out = @ \o results,
                            !.pagesOut = Append(@, results),
                            !.pc = "yielded"]

(* doSearch and the code up to the yield (or the break on an empty page).  *)
ScSearchStep(g, pages, ok, maxContacts) ==
  LET g1 == [g EXCEPT !.requests = @ + 1] IN
  IF ~ok THEN [g1 EXCEPT !.pc = "failed"]
  ELSE LET results == UpstreamResults(pages, g.after) IN
       IF Len(results) = 0 THEN [g1 EXCEPT !.pc = "done"]
       ELSE LET total == g.totalFetched + Len(results) IN
            IF maxContacts > 0 /\ total > maxContacts
            THEN LET trim == total - maxContacts
                     page == SubSeq(results, 1, Len(results) - trim)
                 IN [g1 EXCEPT !.totalFetched = total,
                               !.out = @ \o page,
                               !.pagesOut = Append(@, page),
                               !.pc = "yieldedLast"]
            ELSE [g1 EXCEPT !.totalFetched = total,
                            !.out = @ \o results,
                            !.pagesOut = Append(@, results),
                            !.pc = "yielded"]

(* The consumer asks for the next page: the code after the yield.          *)
ScResumeStep(g, pages) ==
  IF g.pc = "yieldedLast" THEN [g EXCEPT !.pc = "done"]
  ELSE LET next == UpstreamNext(pages, g.after) IN
       IF next = NoCursor THEN [g EXCEPT !.pc = "done"]
       ELSE [g EXCEPT !.after = next, !.pc = "sleep"]

ScSleepStep(g) == [g EXCEPT !.pc = "search"]

(* ---- getAssociationIds ------------------------------------------------- *)
ASSOCIATIONS_BATCH_SIZE == 1000

(* An association batch response names, per from-id it knows, the list of  *)
(* associated object ids.  A response is described by the from-ids it      *)
(* leaves out: none, all of them, or those at even positions of the batch; *)
(* "error" is a response with an error status, whose body has no results.  *)
AssocResponses == {"all", "none", "odd", "error"}

InResponse(resp, pos) ==
  IF resp = "all" THEN TRUE
  ELSE IF resp \in {"none", "error"} THEN FALSE
  ELSE pos % 2 = 1

FromIds(batch, resp) == {batch[k] : k \in {j \in 1..Len(batch) : InResponse(resp, j)}}

(* The related object ids the upstream holds for a contact id.             *)
ToListOf(id) == <<id>>

GaInit(ids) ==
  [pc |-> "loop", i |-> 0, idMap |-> [id \in {ids[k] : k \in 1..Len(ids)} |-> <<>>],
   calls |-> <<>>, waits |-> 0]
GaIdle == [pc |-> "idle", i |-> 0, idMap |-> <<>>, calls |-> <<>>, waits |-> 0]

(* Variant of the step below: the window is cut one id short.              *)
GaBatchStepShortWindow(g, ids, ok, resp) ==
  IF ~(g.i < Len(ids)) THEN [g EXCEPT !.pc = "done"]
  ELSE LET batch == SubSeq(ids, g.i + 1, Min(g.i + ASSOCIATIONS_BATCH_SIZE - 1, Len(ids)))
           g1 == [g EXCEPT !.calls = Append(@, batch)]
           fromIds == FromIds(batch, resp)
       IN IF ~ok THEN [g1 EXCEPT !.pc = "failed"]
          ELSE [g1 EXCEPT
                  !.idMap = [id \in DOMAIN g.idMap |->
                               IF id \in fromIds
                               THEN g.idMap[id] \o ToListOf(id)
                               ELSE g.idMap[id]],
                  !.pc = "sleep"]

(* The loop test, one batch/read call and the walk over its results.       *)
GaBatchStep(g, ids, ok, resp) ==
  IF ~(g.i < Len(ids)) THEN [g EXCEPT !.pc = "done"]
  ELSE LET batch == SubSeq(ids, g.i + 1, Min(g.i + ASSOCIATIONS_BATCH_SIZE, Len(ids)))
           g1 == [g EXCEPT !.calls = Append(@, batch)]
           fromIds == FromIds(batch, resp)
       IN IF ~ok THEN [g1 EXCEPT !.pc = "failed"]
          ELSE [g1 EXCEPT
                  !.idMap = [id \in DOMAIN g.idMap |->
                               IF id \in fromIds
                               THEN g.idMap[id] \o ToListOf(id)
                               ELSE g.idMap[id]],
                  !.pc = "sleep"]

(* The throttle wait and the loop increment.                               *)
GaSleepStep(g) ==
  [g EXCEPT !.waits = @ + 1, !.i = @ + ASSOCIATIONS_BATCH_SIZE, !.pc = "loop"]

(* ---- mergeFormSubmissionsIntoCache ------------------------------------ *)
(* An entry is [formGuid, conversionId, submittedAt]; submittedAt stands   *)
(* for all the fields the merge only carries along.  A byEmail Map is a    *)
(* function from the emails it has to sequences of entries.                *)
NullToEmpty(v) == IF v = Null THEN "" ELSE v

(* `${entry.formGuid ?? ''}:${entry.conversionId ?? ''}`, kept as its      *)
(* parts.                                                                  *)
KeyOf(entry) == <<NullToEmpty(entry.formGuid), ":", NullToEmpty(entry.conversionId)>>

(* list.findIndex(e => key of e === key): the first match, 0 for none.     *)
FindIndex(list, key) ==
  IF \E i \in 1..Len(list) : KeyOf(list[i]) = key
  THEN CHOOSE i \in 1..Len(list) :
         /\ KeyOf(list[i]) = key
         /\ \A j \in 1..(i - 1) : KeyOf(list[j]) # key
  ELSE 0

(* Variant: never looks the key up, always pushes.                         *)
MergeEntryAlwaysPush(list, entry) == Append(list, entry)

(* Variant: a matched entry is removed and the fresh one pushed.           *)
MergeEntryMoveToEnd(list, entry) ==
  LET idx == FindIndex(list, KeyOf(entry)) IN
  IF idx > 0
  THEN Append(SubSeq(list, 1, idx - 1) \o SubSeq(list, idx + 1, Len(list)), entry)
  ELSE Append(list, entry)

(* Variant: an unmatched entry is put in front.                            *)
MergeEntryUnshift(list, entry) ==
  LET idx == FindIndex(list, KeyOf(entry)) IN
  IF idx > 0 THEN [list EXCEPT ![idx] = entry] ELSE <<entry>> \o list

(* The body of the inner loop: overwrite at idx or push.                   *)
MergeEntry(list, entry) ==
  LET idx == FindIndex(list, KeyOf(entry)) IN
  IF idx > 0 THEN [list EXCEPT ![idx] = entry] ELSE Append(list, entry)

RECURSIVE MergeEntries(_, _)
MergeEntries(list, entries) ==
  IF entries = <<>> THEN list
  ELSE MergeEntries(MergeEntry(list, Head(entries)), Tail(entries))

(* The outer loop: every email of the fresh map gets a list in the cache.  *)
mergeFormSubmissionsIntoCache(cachedByEmail, freshByEmail) ==
  [email \in DOMAIN cachedByEmail \cup DOMAIN freshByEmail |->
     IF email \in DOMAIN freshByEmail
     THEN MergeEntries(IF email \in DOMAIN cachedByEmail THEN cachedByEmail[email] ELSE <<>>,
                       freshByEmail[email])
     ELSE cachedByEmail[email]]

(* ---- collectFormSubmissionsForForm ------------------------------------- *)
FORM_SUBMISSIONS_PAGE_SIZE == 50

(* String(v.name).toLowerCase() and String(email).trim().toLowerCase(), on *)
(* the field names and raw values the upstream of the model uses.          *)
ToLowerCase(str) ==
  IF str = "Email" THEN "email"
  ELSE IF str = "A@X.COM" THEN "a@x.com"
  ELSE str

Trim(str) ==
  IF str = " A@X.COM" THEN "A@X.COM"
  ELSE IF str = "  " THEN ""
  ELSE str

(* byName over the values array (a later field of the same name wins),     *)
(* then byName.email ?? byName.e_mail ?? null.                             *)
RECURSIVE ByNameValue(_, _)
ByNameValue(values, name) ==
  IF values = <<>> THEN Null
  ELSE LET v == values[Len(values)] IN
       IF ToLowerCase(v.name) = name THEN v.value
       ELSE ByNameValue(SubSeq(values, 1, Len(values) - 1), name)

getEmailFromSubmissionValues(values) ==
  IF ByNameValue(values, "email") # Null THEN ByNameValue(values, "email")
  ELSE ByNameValue(values, "e_mail")

(* The entry built from a yielded submission; submittedAt stands for the   *)
(* fields that are only carried along (formName, pageUrl, values).         *)
EntryOf(sub, formGuid) ==
  [formGuid |-> formGuid, conversionId |-> sub.conversionId, submittedAt |-> sub.submittedAt]

PushEntry(byEmail, key, entry) ==
  IF key \in DOMAIN byEmail THEN [byEmail EXCEPT ![key] = Append(@, entry)]
  ELSE byEmail @@ (key :> <<entry>>)

(* The body of the for-await loop, over everything the generator yielded.  *)
RECURSIVE CollectEntries(_, _, _)
CollectEntries(out, formGuid, byEmail) ==
  IF out = <<>> THEN byEmail
  ELSE LET sub == Head(out)
           email == getEmailFromSubmissionValues(sub.values)
           key == IF email = Null THEN "" ELSE ToLowerCase(Trim(email))
       IN CollectEntries(Tail(out), formGuid,
                         IF email = Null \/ email = "" \/ key = "" THEN byEmail
                         ELSE PushEntry(byEmail, key, EntryOf(sub, formGuid)))

(* A task is the generator of one form; a form without a guid returns an   *)
(* empty map without a request.                                            *)
CollectInit(form) == IF form.guid = Null THEN [FsInit EXCEPT !.pc = "done"] ELSE FsInit

CollectResult(task, form) == CollectEntries(task.out, form.guid, <<>>)

(* intoByEmail.get(email).push(...entries) for every email of a form map.  *)
AppendInto(intoByEmail, formMap) ==
  [email \in DOMAIN intoByEmail \cup DOMAIN formMap |->
     ListAt(intoByEmail, email) \o ListAt(formMap, email)]

(* ---- loadFormSubmissionsCache / saveFormSubmissionsCache --------------- *)
(* The cache file is [kind, byEmail]: "absent" (no file: ENOENT),          *)
(* "unreadable" (readFile fails otherwise), "malformed" (JSON.parse        *)
(* throws), "jsonNull" (the document null: data.byEmail throws),           *)
(* "noByEmail" (a document without a byEmail object) or "cache".           *)
FileOf(kind) == [kind |-> kind, byEmail |-> <<>>]

(* Variant: every failure of the read is taken for a missing file.         *)
loadFormSubmissionsCacheCatchAll(file) ==
  IF file.kind = "cache" THEN [result |-> "cache", byEmail |-> file.byEmail]
  ELSE IF file.kind = "noByEmail" THEN [result |-> "cache", byEmail |-> <<>>]
  ELSE [result |-> "null", byEmail |-> <<>>]

loadFormSubmissionsCache(file) ==
  IF file.kind = "absent" THEN [result |-> "null", byEmail |-> <<>>]
  ELSE IF file.kind \in {"unreadable", "malformed", "jsonNull"}
       THEN [result |-> "throw", byEmail |-> <<>>]
  ELSE IF file.kind = "noByEmail" THEN [result |-> "cache", byEmail |-> <<>>]
  ELSE [result |-> "cache", byEmail |-> file.byEmail]

saveFormSubmissionsCache(byEmail) == [kind |-> "cache", byEmail |-> byEmail]

(* ======================================================================= *)
(* State                                                                   *)
(* ======================================================================= *)
VARIABLES
  which,             \* the operation a specification exercises
  contactPages,      \* upstream of the contact search: a sequence of pages
  maxContacts,       \* config.contactSearch.maxContacts
  sc,                \* searchContacts generator
  submissionPages,   \* upstream of one form's submissions: a sequence of pages
  maxSubmissions,    \* fetchFormSubmissions parameter
  cutoffMs,          \* fetchFormSubmissions parameter
  fs,                \* fetchFormSubmissions generator
  contactIds,        \* getAssociationIds parameter: the ids of one contact page
  ga,                \* getAssociationIds activation
  cache0,            \* merge specification: the cache before any merge
  deltaA,            \* merge specification: a fresh byEmail map
  deltaB,            \* merge specification: another fresh byEmail map
  cachedByEmail,     \* merge specification: the cache being merged into
  merged,            \* merge specification: the deltas merged so far, in order
  cfg,               \* config: cachePath, maxPerForm, maxForms, cutoffMs, concurrency
  cacheFile,         \* the file at config.formSubmissionsCachePath
  formsUpstream,     \* what the forms list call returns
  upstream,          \* per form (by place in the list) its submission pages
  run,               \* the activation of buildFormSubmissionsByEmail
  runNo,             \* the number of the run under way
  history,           \* summaries of the runs that ended
  assoc,             \* the activation of buildAssociations
  engIn,             \* engagement: config overrides, event types, event logs
  eng,               \* engagement: main's position and the counting under way
  mnIn,              \* main: what the account holds and what is switched on
  mn,                \* main: its position and the remote calls and waits so far
  sv,                \* the activation of saveFormSubmissionsCache
  rpIn,              \* report: a page's associations and the detail batch responses
  rp                 \* report: main's position in the page and what it has built

pgVars == <<contactPages, maxContacts, sc, submissionPages, maxSubmissions, cutoffMs, fs>>
baVars == <<contactIds, ga>>
mgVars == <<cache0, deltaA, deltaB, cachedByEmail, merged>>
rnVars == <<cfg, cacheFile, formsUpstream, upstream, run, runNo, history>>
xtVars == <<assoc, engIn, eng, mnIn, mn, sv, rpIn, rp>>
vars == <<which, pgVars, baVars, mgVars, rnVars, xtVars>>

(* What the actions of one specification leave alone.                      *)
notPg == <<baVars, mgVars, rnVars, xtVars>>
notBa == <<pgVars, mgVars, rnVars, xtVars>>
notMg == <<pgVars, baVars, rnVars, xtVars>>
notRn == <<pgVars, baVars, mgVars, xtVars>>

(* ---- inputs of the paginator specification ---------------------------- *)
SizeSeqs == UNION {[1..n -> 0..MaxPageLen] : n \in 1..MaxPages}

(* The pages that cut the item sequence into windows of the given sizes.   *)
PagesOfSizes(sizes, items) ==
  [p \in 1..Len(sizes) |->
     SubSeq(items, SumSeq(SubSeq(sizes, 1, p - 1)) + 1, SumSeq(SubSeq(sizes, 1, p)))]

ContactUpstreams ==
  {PagesOfSizes(sizes, [k \in 1..SumSeq(sizes) |-> k]) : sizes \in SizeSeqs}

(* One upstream writes all its timestamps the same way (a number of ms, a  *)
(* date string, or a string no date parses from); a submission may lack    *)
(* its timestamp.                                                          *)
TsFormats == {"number", "iso", "bad"}
TsOf(format, ms) == IF ms = 0 THEN NoTs ELSE [kind |-> format, ms |-> ms]

SubmissionUpstreams ==
  UNION {
    {PagesOfSizes(sizes,
        [k \in 1..SumSeq(sizes) |-> [conversionId |-> k, submittedAt |-> TsOf(format, ms[k])]])
       : ms \in [1..SumSeq(sizes) -> 0..MaxTs], format \in TsFormats}
    : sizes \in {z \in SizeSeqs : SumSeq(z) <= MaxItems}}

PgIdle ==
  /\ contactPages = <<>> /\ maxContacts = 0 /\ sc = ScIdle
  /\ submissionPages = <<>> /\ maxSubmissions = 0 /\ cutoffMs = 0 /\ fs = FsIdle

BaIdle == contactIds = <<>> /\ ga = GaIdle

MgIdle ==
  /\ cache0 = <<>> /\ deltaA = <<>> /\ deltaB = <<>> /\ cachedByEmail = <<>>
  /\ merged = <<>>

RnIdle ==
  /\ cfg = <<>> /\ cacheFile = FileOf("absent") /\ formsUpstream = <<>> /\ upstream = <<>>
  /\ run = <<>> /\ runNo = 0 /\ history = <<>>

AssocIdle == assoc = <<>>

EngIdle == engIn = <<>> /\ eng = <<>>

MnIdle == mnIn = <<>> /\ mn = <<>>

SvIdle == sv = <<>>

RpIdle == rpIn = <<>> /\ rp = <<>>

XtIdle == AssocIdle /\ EngIdle /\ MnIdle /\ SvIdle /\ RpIdle

InitPaginate ==
  /\ BaIdle
  /\ MgIdle
  /\ RnIdle
  /\ XtIdle
  /\ which \in {"searchContacts", "fetchFormSubmissions"}
  /\ IF which = "searchContacts"
     THEN /\ contactPages \in ContactUpstreams
          /\ maxContacts \in 0..MaxConfigured
          /\ sc = ScInit
          /\ submissionPages = <<>> /\ maxSubmissions = 0 /\ cutoffMs = 0 /\ fs = FsIdle
     ELSE /\ submissionPages \in SubmissionUpstreams
          /\ maxSubmissions \in 0..MaxConfigured
          /\ cutoffMs \in 0..MaxTs
          /\ fs = FsInit
          /\ contactPages = <<>> /\ maxContacts = 0 /\ sc = ScIdle

(* ---- actions of the paginator specification --------------------------- *)
ScSearch ==
  /\ sc.pc = "search"
  /\ \E ok \in BOOLEAN : sc' = ScSearchStep(sc, contactPages, ok, maxContacts)
  /\ UNCHANGED <<which, contactPages, maxContacts, submissionPages, maxSubmissions, cutoffMs, fs>>
  /\ UNCHANGED notPg

ScResume ==
  /\ sc.pc \in {"yielded", "yieldedLast"}
  /\ sc' = ScResumeStep(sc, contactPages)
  /\ UNCHANGED <<which, contactPages, maxContacts, submissionPages, maxSubmissions, cutoffMs, fs>>
  /\ UNCHANGED notPg

ScSleep ==
  /\ sc.pc = "sleep"
  /\ sc' = ScSleepStep(sc)
  /\ UNCHANGED <<which, contactPages, maxContacts, submissionPages, maxSubmissions, cutoffMs, fs>>
  /\ UNCHANGED notPg

FsFetch ==
  /\ fs.pc = "fetch"
  /\ \E ok \in BOOLEAN :
       fs' = FsFetchStep(fs, submissionPages, ok, "F1", "Form 1", maxSubmissions, cutoffMs)
  /\ UNCHANGED <<which, contactPages, maxContacts, sc, submissionPages, maxSubmissions, cutoffMs>>
  /\ UNCHANGED notPg

FsSleep ==
  /\ fs.pc = "sleep"
  /\ fs' = FsSleepStep(fs)
  /\ UNCHANGED <<which, contactPages, maxContacts, sc, submissionPages, maxSubmissions, cutoffMs>>
  /\ UNCHANGED notPg

NextPaginate == ScSearch \/ ScResume \/ ScSleep \/ FsFetch \/ FsSleep

SpecPaginate == InitPaginate /\ [][NextPaginate]_vars

(* ======================================================================= *)
(* Pagination: C1, C2, C3                                                  *)
(* ======================================================================= *)
Truncated(items, max) == IF max > 0 THEN Take(items, max) ELSE items

(* The pages in front of the first empty page (all of them when none is    *)
(* empty).                                                                 *)
RECURSIVE LivePages(_)
LivePages(pages) ==
  IF pages = <<>> \/ Len(Head(pages)) = 0 THEN <<>>
  ELSE <<Head(pages)>> \o LivePages(Tail(pages))

(* What the consumer of fetchFormSubmissions received, as upstream items.  *)
SubsOf(out) ==
  [i \in 1..Len(out) |->
     [conversionId |-> out[i].conversionId, submittedAt |-> out[i].submittedAt]]

ScDone == which = "searchContacts" /\ sc.pc = "done"
FsDone == which = "fetchFormSubmissions" /\ fs.pc = "done"

(* C1 as stated: a paginator that ran to its end has yielded the in-order  *)
(* concatenation of ALL upstream pages, truncated to the maximum when one  *)
(* is set (fetchFormSubmissions with no cutoff configured).                *)
C1_YieldsAllPagesTruncated ==
  /\ ScDone => sc.out = Truncated(Flatten(contactPages), maxContacts)
  /\ (FsDone /\ cutoffMs = 0) =>
       SubsOf(fs.out) = Truncated(Flatten(submissionPages), maxSubmissions)

(* C1 amended: a paginator that ran to its end has yielded the in-order    *)
(* concatenation of the pages in front of the first empty page, truncated  *)
(* to the maximum when one is set; an empty page ends the walk even when   *)
(* it carries a continuation token.                                        *)
C1_YieldsLivePagesTruncated ==
  /\ ScDone => sc.out = Truncated(Flatten(LivePages(contactPages)), maxContacts)
  /\ (FsDone /\ cutoffMs = 0) =>
       SubsOf(fs.out) = Truncated(Flatten(LivePages(submissionPages)), maxSubmissions)

(* C1 witness: searchContacts ended on a page larger than the remaining    *)
(* budget, after a full page, and yielded exactly the maximum.             *)
C1_Witness ==
  /\ ScDone /\ maxContacts > 0
  /\ sc.requests = 2
  /\ sc.totalFetched > maxContacts
  /\ Len(sc.out) = maxContacts
  /\ Len(Flatten(contactPages)) > maxContacts

(* C2: with a maximum M > 0 configured, the number of items yielded so far *)
(* is at most M in every state of either pagination.                       *)
C2_NeverExceedsMaximum ==
  /\ maxContacts > 0 => Len(sc.out) <= maxContacts
  /\ maxSubmissions > 0 => (Len(fs.out) <= maxSubmissions /\ fs.yielded = Len(fs.out))

(* C2 witness: fetchFormSubmissions stopped inside a page at the maximum,  *)
(* with more items upstream.                                               *)
C2_Witness ==
  /\ FsDone /\ maxSubmissions > 0
  /\ Len(fs.out) = maxSubmissions
  /\ Len(Flatten(LivePages(submissionPages))) > maxSubmissions
  /\ cutoffMs = 0

(* The upstream is newest-first: every timestamp parses and each is        *)
(* strictly smaller than the one before it.                                *)
(* MsOf is the instant the upstream wrote, in whichever format.            *)
MsOf(items) == [i \in 1..Len(items) |-> items[i].submittedAt.ms]

NewestFirst(items) ==
  /\ \A i \in 1..Len(items) : items[i].submittedAt.kind \in {"number", "iso"}
  /\ \A i \in 1..(Len(items) - 1) : MsOf(items)[i] > MsOf(items)[i + 1]

CutoffBetween(items, cutoff) ==
  /\ cutoff > 0
  /\ \E i \in 1..(Len(items) - 1) :
       MsOf(items)[i] > cutoff /\ cutoff > MsOf(items)[i + 1]

AtOrAfter(items, cutoff) == SelectSeq(items, LAMBDA it : it.submittedAt.ms >= cutoff)

C3_Case ==
  /\ FsDone /\ maxSubmissions = 0
  /\ NewestFirst(Flatten(submissionPages))
  /\ CutoffBetween(Flatten(submissionPages), cutoffMs)

(* C3 as stated: newest-first pages and a cutoff strictly between two      *)
(* adjacent items: exactly the items at or after the cutoff are yielded.   *)
C3_YieldsExactlyAtOrAfterCutoff ==
  C3_Case => SubsOf(fs.out) = AtOrAfter(Flatten(submissionPages), cutoffMs)

(* C3 amended: the same, of the pages in front of the first empty page: no *)
(* item older than the cutoff is yielded, and every item at or after it    *)
(* that no empty page precedes is.                                         *)
C3_YieldsAtOrAfterCutoffOfLivePages ==
  C3_Case =>
    /\ SubsOf(fs.out) = AtOrAfter(Flatten(LivePages(submissionPages)), cutoffMs)
    /\ \A i \in 1..Len(fs.out) : fs.out[i].submittedAt.ms >= cutoffMs

(* C3 witness: the cutoff fell inside a page of date strings: the walk     *)
(* stopped there, with an item discarded.                                  *)
C3_Witness ==
  /\ C3_Case
  /\ Len(fs.out) >= 1
  /\ Len(fs.out) < Len(Flatten(submissionPages))
  /\ fs.out[1].submittedAt.kind = "iso"
  /\ LivePages(submissionPages) = submissionPages

(* C27: with a maximum M > 0 configured, a paginator makes at most M + 1   *)
(* page requests, however many pages with continuation tokens the          *)
(* upstream holds, and after the last of them it has ended or ends at its  *)
(* next step; fetchFormSubmissions even ends with its M-th request.        *)
C27_BoundedRequestsUnderMaximum ==
  /\ maxContacts > 0 =>
       /\ sc.requests <= maxContacts + 1
       /\ sc.requests = maxContacts + 1 => sc.pc \in {"yieldedLast", "done", "failed"}
  /\ maxSubmissions > 0 =>
       /\ fs.requests <= maxSubmissions
       /\ fs.requests = maxSubmissions => fs.pc \in {"done", "failed"}

(* C27 witness: searchContacts has ended after M + 1 requests although the *)
(* upstream held further pages behind continuation tokens.                 *)
C27_Witness ==
  /\ ScDone /\ maxContacts > 0
  /\ sc.requests = maxContacts + 1
  /\ Len(contactPages) > maxContacts + 1
  /\ \A p \in 1..Len(contactPages) : Len(contactPages[p]) >= 1

(* C28: once searchContacts has yielded exactly maxContacts items, it      *)
(* makes no further search request and yields no further page, and it      *)
(* never yields an empty page.                                             *)
C28_NothingAfterMaximumReached ==
  /\ [][(maxContacts > 0 /\ Len(sc.out) = maxContacts) =>
          /\ sc'.requests = sc.requests
          /\ sc'.pagesOut = sc.pagesOut]_vars
  /\ [](maxContacts > 0 => \A p \in 1..Len(sc.pagesOut) : Len(sc.pagesOut[p]) >= 1)

(* ======================================================================= *)
(* Batch chunking: getAssociationIds                                       *)
(* ======================================================================= *)
BatchInputLens ==
  {0, 1} \cup UNION {{k * ASSOCIATIONS_BATCH_SIZE - 1, k * ASSOCIATIONS_BATCH_SIZE,
                      k * ASSOCIATIONS_BATCH_SIZE + 1} : k \in 1..MaxWindows}

InitBatch ==
  /\ which = "getAssociationIds"
  /\ PgIdle
  /\ MgIdle
  /\ RnIdle
  /\ XtIdle
  /\ \E n \in BatchInputLens : contactIds = [k \in 1..n |-> k]
  /\ ga = GaInit(contactIds)

GaBatch ==
  /\ ga.pc = "loop"
  /\ \E ok \in BOOLEAN, resp \in AssocResponses : ga' = GaBatchStep(ga, contactIds, ok, resp)
  /\ UNCHANGED <<which, contactIds>>
  /\ UNCHANGED notBa

GaSleep ==
  /\ ga.pc = "sleep"
  /\ ga' = GaSleepStep(ga)
  /\ UNCHANGED <<which, contactIds>>
  /\ UNCHANGED notBa

NextBatch == GaBatch \/ GaSleep

SpecBatch == InitBatch /\ [][NextBatch]_vars

Ceil(n, d) == (n + d - 1) \div d

(* C4: for n ids and batch ceiling B, getAssociationIds that ran to its    *)
(* end has issued exactly ceil(n / B) batch calls (none for n = 0); the    *)
(* windows are contiguous, each holds 1..B ids, and together they are the  *)
(* input list, every id in exactly one window.                             *)
C4_BatchWindows ==
  (which = "getAssociationIds" /\ ga.pc = "done") =>
    /\ Len(ga.calls) = Ceil(Len(contactIds), ASSOCIATIONS_BATCH_SIZE)
    /\ Flatten(ga.calls) = contactIds
    /\ \A w \in 1..Len(ga.calls) :
         Len(ga.calls[w]) >= 1 /\ Len(ga.calls[w]) <= ASSOCIATIONS_BATCH_SIZE
    /\ Len(contactIds) = 0 => (ga.calls = <<>> /\ ga.idMap = GaInit(contactIds).idMap)

(* C4 witness: B + 1 ids went out as a full window and a window of one.    *)
C4_Witness ==
  /\ which = "getAssociationIds" /\ ga.pc = "done"
  /\ Len(contactIds) = ASSOCIATIONS_BATCH_SIZE + 1
  /\ Len(ga.calls) = 2
  /\ Len(ga.calls[1]) = ASSOCIATIONS_BATCH_SIZE
  /\ ga.calls[2] = <<contactIds[ASSOCIATIONS_BATCH_SIZE + 1]>>

(* ======================================================================= *)
(* Merge: mergeFormSubmissionsIntoCache                                    *)
(* ======================================================================= *)
EntryKeys == {<<"F1", "C1">>, <<"F1", "C2">>, <<"F2", "C1">>}

KeyLists(maxLen) == UNION {[1..n -> EntryKeys] : n \in 0..maxLen}

(* The entries of a list carry a payload that tells their origin and place *)
(* apart: base, base + 100, ...                                            *)
EntriesOf(keys, base) ==
  [i \in 1..Len(keys) |->
     [formGuid |-> keys[i][1], conversionId |-> keys[i][2],
      submittedAt |-> base + 100 * (i - 1)]]

(* byEmail maps over a@x.com (any list, or absent) and b@x.com (absent or  *)
(* one entry).                                                             *)
ByEmailMaps(base, maxLen) ==
  {[email \in dom |-> IF email = "a@x.com" THEN EntriesOf(ka, base)
                                            ELSE EntriesOf(<<<<"F1", "C1">>>>, base)]
     : ka \in KeyLists(maxLen), dom \in SUBSET {"a@x.com", "b@x.com"}}

InitMerge ==
  /\ which = "mergeFormSubmissionsIntoCache"
  /\ PgIdle
  /\ BaIdle
  /\ RnIdle
  /\ XtIdle
  /\ cache0 \in ByEmailMaps(100, MaxCached)
  /\ deltaA \in ByEmailMaps(200, MaxFresh)
  /\ deltaB \in ByEmailMaps(250, MaxOther)
  /\ cachedByEmail = cache0
  /\ merged = <<>>

MergeDelta ==
  /\ which = "mergeFormSubmissionsIntoCache"
  /\ Len(merged) < MaxMerges
  /\ \E d \in {"A", "B"} :
       /\ cachedByEmail' = mergeFormSubmissionsIntoCache(
                              cachedByEmail, IF d = "A" THEN deltaA ELSE deltaB)
       /\ merged' = Append(merged, d)
  /\ UNCHANGED <<which, cache0, deltaA, deltaB>>
  /\ UNCHANGED notMg

NextMerge == MergeDelta

SpecMerge == InitMerge /\ [][NextMerge]_vars

DeltaOf(d) == IF d = "A" THEN deltaA ELSE deltaB

KeysIn(list) == {KeyOf(list[i]) : i \in 1..Len(list)}

CountKey(list, key) == Cardinality({i \in 1..Len(list) : KeyOf(list[i]) = key})

CountEntry(list, entry) == Cardinality({i \in 1..Len(list) : list[i] = entry})

SameBag(s, t) ==
  /\ Len(s) = Len(t)
  /\ \A i \in 1..Len(s) : CountEntry(s, s[i]) = CountEntry(t, s[i])

(* C5: merging the same delta a second time changes nothing, and after a   *)
(* merge every key of the delta is in the email's list as often as it was  *)
(* before (once when it was new): overwritten, not duplicated.             *)
C5_MergeIdempotent ==
  \A d \in {"A", "B"} :
    /\ merged = <<d, d>> =>
         cachedByEmail = mergeFormSubmissionsIntoCache(cache0, DeltaOf(d))
    /\ merged \in {<<d>>, <<d, d>>} =>
         \A email \in DOMAIN DeltaOf(d) :
           \A key \in KeysIn(DeltaOf(d)[email]) :
             CountKey(cachedByEmail[email], key) =
               IF CountKey(ListAt(cache0, email), key) > 0
               THEN CountKey(ListAt(cache0, email), key) ELSE 1

(* C5 witness: a delta with a cached key and a new key was merged twice.   *)
C5_Witness ==
  /\ merged = <<"A", "A">>
  /\ "a@x.com" \in DOMAIN cache0 /\ "a@x.com" \in DOMAIN deltaA
  /\ KeysIn(deltaA["a@x.com"]) \cap KeysIn(cache0["a@x.com"]) # {}
  /\ KeysIn(deltaA["a@x.com"]) \ KeysIn(cache0["a@x.com"]) # {}
  /\ cachedByEmail # cache0

(* Deltas with disjoint (email, formGuid, conversionId) keys.              *)
DisjointKeys(a, b) ==
  \A email \in DOMAIN a \cap DOMAIN b : KeysIn(a[email]) \cap KeysIn(b[email]) = {}

Appends(delta, cache, email) ==
  email \in DOMAIN delta /\ KeysIn(delta[email]) \ KeysIn(ListAt(cache, email)) # {}

BThenA == mergeFormSubmissionsIntoCache(mergeFormSubmissionsIntoCache(cache0, deltaB), deltaA)

(* C6 as stated: with disjoint keys, A then B gives the same per-email     *)
(* entry sequences as B then A.                                            *)
C6_MergeOrderIrrelevant ==
  (merged = <<"A", "B">> /\ DisjointKeys(deltaA, deltaB)) => cachedByEmail = BThenA

(* C6 amended: with disjoint keys, A then B gives the same emails and per  *)
(* email the same entries as B then A, identical at the positions the      *)
(* cache had before; the sequences are identical unless both deltas append *)
(* to the same email, where the appended entries come in merge order.      *)
C6_MergeOrderUpToAppendOrder ==
  (merged = <<"A", "B">> /\ DisjointKeys(deltaA, deltaB)) =>
    /\ DOMAIN cachedByEmail = DOMAIN BThenA
    /\ \A email \in DOMAIN cachedByEmail :
         /\ SameBag(cachedByEmail[email], BThenA[email])
         /\ \A i \in 1..Len(ListAt(cache0, email)) :
              cachedByEmail[email][i] = BThenA[email][i]
         /\ ~(Appends(deltaA, cache0, email) /\ Appends(deltaB, cache0, email)) =>
              cachedByEmail[email] = BThenA[email]

(* C6 witness: disjoint deltas touched the same email, A appending an      *)
(* entry and B overwriting a cached one: both orders give the same list.   *)
C6_Witness ==
  /\ merged = <<"A", "B">> /\ DisjointKeys(deltaA, deltaB)
  /\ "a@x.com" \in DOMAIN cache0 /\ Len(cache0["a@x.com"]) >= 1
  /\ Appends(deltaA, cache0, "a@x.com")
  /\ "a@x.com" \in DOMAIN deltaB
  /\ KeysIn(deltaB["a@x.com"]) \cap KeysIn(cache0["a@x.com"]) # {}
  /\ cachedByEmail = BThenA
  /\ cachedByEmail # cache0

(* The last entry of the delta list with the key, and the place of the     *)
(* key's first entry.                                                      *)
LastWith(list, key) ==
  list[CHOOSE i \in 1..Len(list) :
         KeyOf(list[i]) = key /\ \A j \in (i + 1)..Len(list) : KeyOf(list[j]) # key]

FirstAt(list, key) ==
  CHOOSE i \in 1..Len(list) :
    KeyOf(list[i]) = key /\ \A j \in 1..(i - 1) : KeyOf(list[j]) # key

MergedAsSpecified(old, delta, result) ==
  /\ Len(result) = Len(old) + Cardinality(KeysIn(delta) \ KeysIn(old))
  /\ \A i \in 1..Len(old) :
       result[i] = IF KeyOf(old[i]) \in KeysIn(delta) /\ FirstAt(old, KeyOf(old[i])) = i
                   THEN LastWith(delta, KeyOf(old[i]))
                   ELSE old[i]
  /\ \A i \in (Len(old) + 1)..Len(result) :
       /\ KeyOf(result[i]) \in KeysIn(delta) \ KeysIn(old)
       /\ result[i] = LastWith(delta, KeyOf(result[i]))
       /\ \A j \in (Len(old) + 1)..(i - 1) :
            FirstAt(delta, KeyOf(result[j])) < FirstAt(delta, KeyOf(result[i]))

ExampleCached == <<[formGuid |-> "F1", conversionId |-> "C1", submittedAt |-> 100]>>
ExampleFresh ==
  <<[formGuid |-> "F1", conversionId |-> "C1", submittedAt |-> 200],
    [formGuid |-> "F1", conversionId |-> "C2", submittedAt |-> 300]>>

(* C7: after one merge, for every email of the delta each delta entry sits *)
(* at the index of the first cached entry with its key, or, when the cache *)
(* had none, behind the cached entries in order of arrival; the other      *)
(* entries and emails are as before.  a@x.com -> [(F1,C1,100)] merged with *)
(* [(F1,C1,200),(F1,C2,300)] is exactly [(F1,C1,200),(F1,C2,300)].         *)
C7_OverwriteInPlaceOrAppend ==
  \A d \in {"A", "B"} :
    merged = <<d>> =>
      /\ DOMAIN cachedByEmail = DOMAIN cache0 \cup DOMAIN DeltaOf(d)
      /\ \A email \in DOMAIN cachedByEmail :
           IF email \in DOMAIN DeltaOf(d)
           THEN MergedAsSpecified(ListAt(cache0, email), DeltaOf(d)[email],
                                  cachedByEmail[email])
           ELSE cachedByEmail[email] = cache0[email]
      /\ (/\ ListAt(cache0, "a@x.com") = ExampleCached
          /\ ListAt(DeltaOf(d), "a@x.com") = ExampleFresh)
           => cachedByEmail["a@x.com"] = ExampleFresh

(* C7 witness: the scenario of the example has been merged.                *)
C7_Witness ==
  /\ merged = <<"A">>
  /\ ListAt(cache0, "a@x.com") = ExampleCached
  /\ ListAt(deltaA, "a@x.com") = ExampleFresh
  /\ cachedByEmail["a@x.com"] = ExampleFresh

(* ======================================================================= *)
(* Runs: buildFormSubmissionsByEmail                                       *)
(* ======================================================================= *)
(* The submissions an upstream of the model may hold.  S1 has a field      *)
(* "Email" with a padded upper-case value, S2 no email field, S3 no        *)
(* conversionId.                                                           *)
S1 == [conversionId |-> "C1", submittedAt |-> [kind |-> "number", ms |-> 3],
       values |-> <<[name |-> "Email", value |-> " A@X.COM"]>>]
S2 == [conversionId |-> "C2", submittedAt |-> [kind |-> "iso", ms |-> 2],
       values |-> <<[name |-> "phone", value |-> "555"]>>]
S3 == [conversionId |-> Null, submittedAt |-> [kind |-> "number", ms |-> 2],
       values |-> <<[name |-> "e_mail", value |-> "a@x.com"]>>]
Catalog == {S1, S2, S3}

(* The submissions of the first form, newest first, on one page or with    *)
(* the newest one on a page of its own (the second page may then be empty).*)
RunPages ==
  UNION {{<<items>>} \cup (IF Len(items) >= 1
                             THEN {<<Take(items, 1), SubSeq(items, 2, Len(items))>>}
                             ELSE {})
           : items \in UNION {[1..n -> Catalog] : n \in 0..MaxRunItems}}

RunUpstreams ==
  {<<pages>> \o rest :
     pages \in RunPages,
     rest \in {<< <<<<>>>> >>, << <<<<S1>>>> >>}}

FormsLists ==
  {<<[guid |-> "F1", name |-> "Form 1"], [guid |-> "F2", name |-> "Form 2"]>>,
   <<[guid |-> "F1", name |-> "Form 1"], [guid |-> Null, name |-> Null]>>}

CachePath == "cache/form-submissions.json"

Configs ==
  [cachePath : {CachePath, Null}, maxPerForm : {0, 1}, maxForms : {0, 1},
   cutoffMs : {0, 3}, concurrency : {1, 2}]

OldEntry == [formGuid |-> "F1", conversionId |-> "C1",
             submittedAt |-> [kind |-> "number", ms |-> 1]]

InitialFiles ==
  {FileOf(k) : k \in {"absent", "unreadable", "malformed", "jsonNull", "noByEmail"}}
  \cup {saveFormSubmissionsCache(m) :
          m \in {<<>>, [e \in {"a@x.com"} |-> <<OldEntry>>]}}

NewRun(file) ==
  [pc |-> "fetchAllForms", forms |-> <<>>, mode |-> "none", i |-> 0, tasks |-> <<>>,
   byEmail |-> <<>>, cached |-> <<>>, loaded |-> "no",
   existed |-> file.kind # "absent", fileAtLoad |-> "no",
   fullFetches |-> 0, newestFetches |-> 0, merges |-> 0, saves |-> 0, result |-> <<>>]

InitRun ==
  /\ which = "buildFormSubmissionsByEmail"
  /\ PgIdle
  /\ BaIdle
  /\ MgIdle
  /\ XtIdle
  /\ cfg \in Configs
  /\ cacheFile \in (IF cfg.cachePath = Null THEN {FileOf("absent")} ELSE InitialFiles)
  /\ formsUpstream \in FormsLists
  /\ upstream \in RunUpstreams
  /\ run = NewRun(cacheFile)
  /\ runNo = 1
  /\ history = <<>>

(* ---- the steps of one run ---------------------------------------------- *)
(* Variant: a failing run saves what it has.                               *)
FailedButSaves(r) == [r EXCEPT !.pc = "save", !.tasks = <<>>]

(* The error leaves buildFormSubmissionsByEmail: nothing is saved.          *)
Failed(r) == [r EXCEPT !.pc = "failed", !.tasks = <<>>]

(* Variant: the concurrent branch starts every form at once.               *)
WidthAllForms(r) == IF r.mode = "full" /\ cfg.concurrency > 1 THEN Len(r.forms) ELSE 1

(* How many forms are in flight together: one, except in the concurrent    *)
(* branch of runFullFetch.                                                 *)
Width(r) == IF r.mode = "full" /\ cfg.concurrency > 1 THEN cfg.concurrency ELSE 1

Chunk(r) == {k \in 1..Len(r.forms) : r.i < k /\ k <= r.i + Width(r)}

(* Variant: the incremental path stops after the newest submission.        *)
MaxPerFormNewestOne(r) == IF r.mode = "newest" THEN 1 ELSE cfg.maxPerForm

(* fetchNewestFormSubmissionsOnly passes the page size as the maximum per  *)
(* form, runFullFetch the configured one.                                  *)
MaxPerFormOf(r) == IF r.mode = "newest" THEN FORM_SUBMISSIONS_PAGE_SIZE ELSE cfg.maxPerForm

(* Variant: the full fetch returns its map without saving it.              *)
AfterFetchFullUnsaved(r) ==
  IF r.mode = "newest"
  THEN [r EXCEPT !.tasks = <<>>,
                 !.cached = mergeFormSubmissionsIntoCache(r.cached, r.byEmail),
                 !.merges = @ + 1, !.pc = "save"]
  ELSE [r EXCEPT !.tasks = <<>>, !.pc = "done", !.result = r.byEmail]

(* The fetch loops are over: merge and go to save, or return.              *)
AfterFetch(r) ==
  IF r.mode = "newest"
  THEN [r EXCEPT !.tasks = <<>>,
                 !.cached = mergeFormSubmissionsIntoCache(r.cached, r.byEmail),
                 !.merges = @ + 1, !.pc = "save"]
  ELSE IF cfg.cachePath # Null THEN [r EXCEPT !.tasks = <<>>, !.pc = "save"]
  ELSE [r EXCEPT !.tasks = <<>>, !.pc = "done", !.result = r.byEmail]

(* The loop head: the tasks of the next chunk start, or the loop ends.     *)
LoopHead(r) ==
  IF r.i < Len(r.forms)
  THEN [r EXCEPT !.tasks = [k \in Chunk(r) |-> CollectInit(r.forms[k])], !.pc = "tasks"]
  ELSE AfterFetch(r)

StartFetch(r, mode) ==
  LoopHead([r EXCEPT !.mode = mode, !.i = 0, !.byEmail = <<>>,
                     !.fullFetches = IF mode = "full" THEN @ + 1 ELSE @,
                     !.newestFetches = IF mode = "newest" THEN @ + 1 ELSE @])

(* Variant: the form maps of a chunk are joined last form first.           *)
RECURSIVE JoinMapsLastFirst(_, _, _)
JoinMapsLastFirst(r, k, into) ==
  IF k > Len(r.forms) \/ k > r.i + Width(r) THEN into
  ELSE AppendInto(JoinMapsLastFirst(r, k + 1, into),
                  CollectResult(r.tasks[k], r.forms[k]))

(* Every form map of the chunk, in the order of the forms, goes into the   *)
(* accumulator.                                                            *)
RECURSIVE JoinMaps(_, _, _)
JoinMaps(r, k, into) ==
  IF k > Len(r.forms) \/ k > r.i + Width(r) THEN into
  ELSE JoinMaps(r, k + 1, AppendInto(into, CollectResult(r.tasks[k], r.forms[k])))

RunFetchAllForms ==
  /\ which = "buildFormSubmissionsByEmail" /\ run.pc = "fetchAllForms"
  /\ \E ok \in BOOLEAN :
       run' = IF ok
              THEN [run EXCEPT !.pc = "formsSleep",
                               !.forms = IF cfg.maxForms > 0
                                         THEN Take(formsUpstream, cfg.maxForms)
                                         ELSE formsUpstream]
              ELSE Failed(run)
  /\ UNCHANGED <<which, cfg, cacheFile, formsUpstream, upstream, runNo, history>>
  /\ UNCHANGED notRn

RunFormsSleep ==
  /\ which = "buildFormSubmissionsByEmail" /\ run.pc = "formsSleep"
  /\ run' = IF cfg.cachePath # Null THEN [run EXCEPT !.pc = "load"]
            ELSE StartFetch(run, "full")
  /\ UNCHANGED <<which, cfg, cacheFile, formsUpstream, upstream, runNo, history>>
  /\ UNCHANGED notRn

RunLoad ==
  /\ which = "buildFormSubmissionsByEmail" /\ run.pc = "load"
  /\ LET cached == loadFormSubmissionsCache(cacheFile)
         r == [run EXCEPT !.loaded = cached.result, !.fileAtLoad = cacheFile.kind]
     IN run' = IF cached.result = "throw" THEN Failed(r)
               ELSE IF cached.result = "cache"
                    THEN StartFetch([r EXCEPT !.cached = cached.byEmail], "newest")
               ELSE StartFetch(r, "full")
  /\ UNCHANGED <<which, cfg, cacheFile, formsUpstream, upstream, runNo, history>>
  /\ UNCHANGED notRn

TaskFetch(k) ==
  /\ which = "buildFormSubmissionsByEmail" /\ run.pc = "tasks"
  /\ k \in DOMAIN run.tasks /\ run.tasks[k].pc = "fetch"
  /\ \E ok \in BOOLEAN :
       LET t == FsFetchStep(run.tasks[k], upstream[k], ok, run.forms[k].guid,
                            run.forms[k].name, MaxPerFormOf(run), cfg.cutoffMs)
       IN run' = IF t.pc = "failed" THEN Failed(run)
                 ELSE [run EXCEPT !.tasks[k] = t]
  /\ UNCHANGED <<which, cfg, cacheFile, formsUpstream, upstream, runNo, history>>
  /\ UNCHANGED notRn

TaskSleep(k) ==
  /\ which = "buildFormSubmissionsByEmail" /\ run.pc = "tasks"
  /\ k \in DOMAIN run.tasks /\ run.tasks[k].pc = "sleep"
  /\ run' = [run EXCEPT !.tasks[k] = FsSleepStep(@)]
  /\ UNCHANGED <<which, cfg, cacheFile, formsUpstream, upstream, runNo, history>>
  /\ UNCHANGED notRn

RunJoin ==
  /\ which = "buildFormSubmissionsByEmail" /\ run.pc = "tasks"
  /\ \A k \in DOMAIN run.tasks : run.tasks[k].pc = "done"
  /\ run' = [run EXCEPT !.byEmail = JoinMaps(run, run.i + 1, run.byEmail),
                        !.pc = "chunkSleep"]
  /\ UNCHANGED <<which, cfg, cacheFile, formsUpstream, upstream, runNo, history>>
  /\ UNCHANGED notRn

RunChunkSleep ==
  /\ which = "buildFormSubmissionsByEmail" /\ run.pc = "chunkSleep"
  /\ run' = LoopHead([run EXCEPT !.i = @ + Width(run)])
  /\ UNCHANGED <<which, cfg, cacheFile, formsUpstream, upstream, runNo, history>>
  /\ UNCHANGED notRn

RunSave ==
  /\ which = "buildFormSubmissionsByEmail" /\ run.pc = "save"
  /\ LET byEmail == IF run.mode = "newest" THEN run.cached ELSE run.byEmail IN
       /\ cacheFile' = saveFormSubmissionsCache(byEmail)
       /\ run' = [run EXCEPT !.saves = @ + 1, !.pc = "done", !.result = byEmail]
  /\ UNCHANGED <<which, cfg, formsUpstream, upstream, runNo, history>>
  /\ UNCHANGED notRn

(* The process ended (exit 0 or 1); the script is started again.           *)
NextRun ==
  /\ which = "buildFormSubmissionsByEmail" /\ run.pc \in {"done", "failed"}
  /\ runNo < MaxRuns
  /\ history' = Append(history, [ok |-> run.pc = "done", existed |-> run.existed,
                                 fullFetches |-> run.fullFetches,
                                 newestFetches |-> run.newestFetches,
                                 saves |-> run.saves])
  /\ run' = NewRun(cacheFile)
  /\ runNo' = runNo + 1
  /\ UNCHANGED <<which, cfg, cacheFile, formsUpstream, upstream>>
  /\ UNCHANGED notRn

Next ==
  \/ RunFetchAllForms \/ RunFormsSleep \/ RunLoad
  \/ (\E k \in 1..MaxForms : TaskFetch(k))
  \/ (\E k \in 1..MaxForms : TaskSleep(k))
  \/ RunJoin \/ RunChunkSleep \/ RunSave \/ NextRun

Spec == InitRun /\ [][Next]_vars

(* ======================================================================= *)
(* Claims about the runs                                                   *)
(* ======================================================================= *)
NoDuplicateKeys(byEmail) ==
  \A e \in DOMAIN byEmail :
    \A i, j \in 1..Len(byEmail[e]) :
      i # j => KeyOf(byEmail[e][i]) # KeyOf(byEmail[e][j])

(* C8: in every cache a run persists or returns, no email's sequence holds *)
(* two entries with the same (formGuid, conversionId) pair.                *)
C8_NoDuplicateKeys ==
  /\ run.pc = "done" => NoDuplicateKeys(run.result)
  /\ cacheFile.kind = "cache" => NoDuplicateKeys(cacheFile.byEmail)

(* The run summaries of this process, the current run last.                *)
Summary(r) ==
  [ok |-> r.pc = "done", existed |-> r.existed, fullFetches |-> r.fullFetches,
   newestFetches |-> r.newestFetches, saves |-> r.saves]

Runs == Append(history, Summary(run))

C10_AbsentOnlyWhenNoFile ==
  run.loaded # "no" =>
    /\ run.loaded = "null" <=> run.fileAtLoad = "absent"
    /\ run.fileAtLoad \in {"unreadable", "malformed", "jsonNull"} =>
         /\ run.loaded = "throw"
         /\ run.pc = "failed"
         /\ run.fullFetches = 0 /\ run.newestFetches = 0 /\ run.saves = 0
         /\ cacheFile.kind = run.fileAtLoad

(* A first run met a malformed file and failed; the second one meets it    *)
(* again.                                                                  *)
C10_Witness ==
  /\ Len(history) = 1 /\ ~history[1].ok /\ history[1].existed
  /\ run.fileAtLoad = "malformed" /\ run.loaded = "throw" /\ run.pc = "failed"

(* C11: on the incremental path exactly one submission page is requested   *)
(* for every form, whatever pages and continuation tokens the upstream     *)
(* returns.                                                                *)
C11_OnePagePerForm ==
  run.mode = "newest" /\ run.pc = "tasks" =>
    \A k \in DOMAIN run.tasks :
      /\ run.tasks[k].requests <= 1
      /\ run.tasks[k].pc = "done" /\ run.forms[k].guid # Null =>
           run.tasks[k].requests = 1

(* C22: within a run the cache file is read once and written at most once; *)
(* it is written only by the save step, after the load answered, every     *)
(* form was fetched and, on the incremental path, the merge was done; a    *)
(* step that fails the run, and every step between load and save, leaves   *)
(* the file as it was, so a failed or interrupted run has not touched it.  *)
C22_FileWrittenOnceAfterSuccess ==
  /\ [](/\ run.saves <= 1
        /\ run.pc = "failed" => run.saves = 0
        /\ run.saves = 1 => run.pc = "done")
  /\ [][/\ (run.loaded # "no" /\ runNo' = runNo) => run'.loaded = run.loaded
        /\ cacheFile' # cacheFile =>
             /\ runNo' = runNo
             /\ run'.saves = run.saves + 1
        /\ run'.saves = run.saves + 1 =>
             /\ run.pc = "save" /\ run'.pc = "done"
             /\ run.loaded \in {"null", "cache"}
             /\ run.i >= Len(run.forms)
             /\ run.fullFetches + run.newestFetches = 1
             /\ run.mode = "newest" => run.merges = 1
        /\ run'.pc = "failed" => cacheFile' = cacheFile]_vars

(* A run loaded the cache, fetched the newest page of the first form and   *)
(* failed on the second form: the file still holds the cache it loaded.    *)
C22_Witness ==
  /\ run.pc = "failed" /\ run.loaded = "cache" /\ run.newestFetches = 1
  /\ run.byEmail # <<>> /\ run.i >= 1
  /\ cacheFile = saveFormSubmissionsCache([e \in {"a@x.com"} |-> <<OldEntry>>])

(* The (email, formGuid, conversionId) keys a cache file holds.            *)
FileKeys(file) ==
  LET byEmail == IF file.kind = "cache" THEN file.byEmail ELSE <<>> IN
  UNION {{<<e, KeyOf(byEmail[e][i])>> : i \in 1..Len(byEmail[e])} : e \in DOMAIN byEmail}

(* Every old entry keeps its index; it is as before unless the delta for   *)
(* the email has its key; an email the delta lacks keeps its list.         *)
KeptInPlace(old, delta, result) ==
  \A e \in DOMAIN old :
    /\ e \in DOMAIN result
    /\ Len(result[e]) >= Len(old[e])
    /\ e \notin DOMAIN delta => result[e] = old[e]
    /\ \A i \in 1..Len(old[e]) :
         /\ KeyOf(result[e][i]) = KeyOf(old[e][i])
         /\ KeyOf(old[e][i]) \notin KeysIn(ListAt(delta, e)) => result[e][i] = old[e][i]

(* C23: the merge of an incremental run leaves every cached entry whose    *)
(* key the delta for its email lacks, and every email the delta lacks,     *)
(* unchanged at its position; and over the runs the set of (email,         *)
(* formGuid, conversionId) keys in the saved cache never shrinks.          *)
C23_MergeKeepsOlderEntries ==
  /\ [](run.mode = "newest" /\ run.pc = "save" =>
          KeptInPlace(loadFormSubmissionsCache(cacheFile).byEmail, run.byEmail, run.cached))
  /\ [][FileKeys(cacheFile) \subseteq FileKeys(cacheFile')]_vars

(* An incremental run merged a new key behind the cached entry, whose key  *)
(* the delta lacks, and is about to save.                                  *)
C23_Witness ==
  /\ run.mode = "newest" /\ run.pc = "save"
  /\ cacheFile = saveFormSubmissionsCache([e \in {"a@x.com"} |-> <<OldEntry>>])
  /\ "a@x.com" \in DOMAIN run.byEmail
  /\ KeyOf(OldEntry) \notin KeysIn(run.byEmail["a@x.com"])
  /\ Len(run.cached["a@x.com"]) = 2
  /\ run.cached["a@x.com"][1] = OldEntry

(* The timestamps of a form's submissions never increase down the list.    *)
NewestFirstOrTied(subs) ==
  \A i, j \in 1..Len(subs) :
    i < j => parseSubmittedAt(subs[i].submittedAt) >= parseSubmittedAt(subs[j].submittedAt)

UsableEmail(sub) ==
  LET email == getEmailFromSubmissionValues(sub.values) IN
  IF email = Null THEN "" ELSE ToLowerCase(Trim(email))

WithinCutoff(sub) ==
  cfg.cutoffMs = 0 \/ parseSubmittedAt(sub.submittedAt) >= cfg.cutoffMs

(* The keys the upstream holds for the forms of the run: submissions with  *)
(* a usable email, within the cutoff.                                      *)
UpstreamKeys(r) ==
  UNION {{<<UsableEmail(sub), KeyOf(EntryOf(sub, r.forms[k].guid))>> :
            sub \in {s \in {Flatten(upstream[k])[i] : i \in 1..Len(Flatten(upstream[k]))} :
                       UsableEmail(s) # "" /\ WithinCutoff(s)}}
           : k \in {n \in 1..Len(r.forms) : r.forms[n].guid # Null}}

FormGuids == <<"F1", "F2", "F3", "F4", "F5">>

FullForms == [k \in 1..MaxForms |-> [guid |-> FormGuids[k], name |-> FormGuids[k]]]

FullPages == {<< <<>> >>, << <<S1>> >>, << <<S1>>, <<S3>> >>}

InitFull ==
  /\ which = "buildFormSubmissionsByEmail"
  /\ PgIdle
  /\ BaIdle
  /\ MgIdle
  /\ XtIdle
  /\ cfg \in [cachePath : {CachePath}, maxPerForm : {0}, maxForms : {0},
              cutoffMs : {0}, concurrency : 0..MaxForms]
  /\ cacheFile = FileOf("absent")
  /\ formsUpstream = FullForms
  /\ upstream \in [1..MaxForms -> FullPages]
  /\ run = NewRun(cacheFile)
  /\ runNo = 1
  /\ history = <<>>

SpecFull == InitFull /\ [][Next]_vars

Max(a, b) == IF a > b THEN a ELSE b

(* The per-form paginations that were started and have not completed.      *)
InFlight == {k \in DOMAIN run.tasks : run.tasks[k].pc # "done"}

(* C12: during the full fetch at most `concurrency` paginations are in     *)
(* flight; a form's page requests come one at a time, each from the fetch  *)
(* position of its own task; and the shared map is written only when every *)
(* task of the chunk has completed, never while tasks run.                 *)
C12_BoundedConcurrencyPrivateMaps ==
  /\ [](run.mode = "full" => Cardinality(InFlight) <= Max(1, cfg.concurrency))
  /\ [][run.mode = "full" /\ run'.mode = "full" =>
          /\ \A k \in DOMAIN run.tasks \cap DOMAIN run'.tasks :
               /\ run'.tasks[k].requests <= run.tasks[k].requests + 1
               /\ run'.tasks[k].requests # run.tasks[k].requests =>
                    run.tasks[k].pc = "fetch"
          /\ run'.byEmail # run.byEmail =>
               /\ run.pc = "tasks" /\ run'.pc # "tasks"
               /\ \A k \in DOMAIN run.tasks : run.tasks[k].pc = "done"]_vars

(* Two of three forms in flight under concurrency 2 while the third waits; *)
(* one task has finished with submissions and the shared map is untouched. *)
C12_Witness ==
  /\ run.mode = "full" /\ run.pc = "tasks"
  /\ cfg.concurrency = 2 /\ Len(run.forms) > 2
  /\ DOMAIN run.tasks = {1, 2}
  /\ run.tasks[1].pc = "done" /\ run.tasks[1].out # <<>>
  /\ run.tasks[2].pc = "sleep"
  /\ run.byEmail = <<>>

(* One form's pagination run alone from its current position to its end,   *)
(* every request answered.                                                 *)
RECURSIVE RunToEnd(_, _, _)
RunToEnd(g, pages, form) ==
  IF g.pc = "fetch"
  THEN RunToEnd(FsFetchStep(g, pages, TRUE, form.guid, form.name, cfg.maxPerForm,
                            cfg.cutoffMs), pages, form)
  ELSE IF g.pc = "sleep" THEN RunToEnd(FsSleepStep(g), pages, form)
  ELSE g

(* What the branch for concurrency <= 1 builds: one form after the other.  *)
RECURSIVE OneByOne(_, _, _)
OneByOne(forms, k, into) ==
  IF k > Len(forms) THEN into
  ELSE OneByOne(forms, k + 1,
                AppendInto(into, CollectResult(RunToEnd(CollectInit(forms[k]), upstream[k],
                                                        forms[k]), forms[k])))

(* C26: whatever the concurrency and the interleaving of the per-form      *)
(* paginations, a full fetch that completes returns the map that fetching  *)
(* the forms one by one returns: the same emails with the same entry       *)
(* sequences.                                                              *)
C26_ConcurrentEqualsSequential ==
  run.mode = "full" /\ run.pc = "done" =>
    /\ run.result = OneByOne(run.forms, 1, <<>>)
    /\ cacheFile = saveFormSubmissionsCache(OneByOne(run.forms, 1, <<>>))

(* Two forms fetched together held submissions of the same email.          *)
C26_Witness ==
  /\ run.mode = "full" /\ run.pc = "done" /\ cfg.concurrency = 2
  /\ upstream[1] = << <<S1>>, <<S3>> >> /\ upstream[2] = << <<S1>> >>
  /\ Len(run.result["a@x.com"]) >= 3
  /\ run.result["a@x.com"][1].formGuid = "F1"
  /\ run.result["a@x.com"][3].formGuid = "F2"

(* ======================================================================= *)
(* buildAssociations                                                       *)
(* ======================================================================= *)
(* Object.keys(config.activityTypesToCount); two of the configured types.  *)
AssocKeys == <<"deals", "emails">>

Range(seq) == {seq[k] : k \in 1..Len(seq)}

(* Variant: a contact whose lists are all empty gets no entry.             *)
BuildResultNonEmptyOnly(ids, keys, maps) ==
  [id \in {c \in Range(ids) : \E key \in Range(keys) : ListAt(maps[key], c) # <<>>} |->
     [key \in Range(keys) |-> ListAt(maps[key], id)]]

(* result.set(id, associations) with associations[key] =                   *)
(* maps[key].get(id) || [], for every id and every key.                    *)
BuildResult(ids, keys, maps) ==
  [id \in Range(ids) |-> [key \in Range(keys) |-> ListAt(maps[key], id)]]

(* resps lists the answers the batch calls got, as [key, resp].            *)
AssocInit == [pc |-> "loop", k |-> 1, maps |-> <<>>, resps |-> <<>>, result |-> <<>>]

PageContactIds ==
  {ids \in UNION {[1..n -> 1..MaxPageContacts] : n \in 1..MaxPageContacts} :
     \A i, j \in 1..Len(ids) : i # j => ids[i] # ids[j]}

InitAssoc ==
  /\ which = "buildAssociations"
  /\ PgIdle
  /\ MgIdle
  /\ RnIdle
  /\ contactIds \in PageContactIds
  /\ ga = GaInit(contactIds)
  /\ assoc = AssocInit
  /\ EngIdle
  /\ MnIdle
  /\ SvIdle
  /\ RpIdle

(* One pass of getAssociationIds for the key under way: a batch call, or   *)
(* the end of its loop, after which the next key starts or the result is   *)
(* built.                                                                  *)
BaCall ==
  /\ which = "buildAssociations" /\ assoc.pc = "loop" /\ ga.pc = "loop"
  /\ \E ok \in BOOLEAN, resp \in AssocResponses :
       LET g == GaBatchStep(ga, contactIds, ok, resp)
           key == AssocKeys[assoc.k]
           maps == (key :> g.idMap) @@ assoc.maps
       IN IF g.pc = "failed"
          THEN ga' = g /\ assoc' = [assoc EXCEPT !.pc = "failed"]
          ELSE IF g.pc = "sleep"
          THEN /\ ga' = g
               /\ assoc' = [assoc EXCEPT !.resps = Append(@, [key |-> key, resp |-> resp])]
          ELSE IF assoc.k < Len(AssocKeys)
          THEN /\ ga' = GaInit(contactIds)
               /\ assoc' = [assoc EXCEPT !.maps = maps, !.k = @ + 1]
          ELSE /\ ga' = g
               /\ assoc' = [assoc EXCEPT !.maps = maps, !.pc = "done",
                                         !.result = BuildResult(contactIds, AssocKeys, maps)]
  /\ UNCHANGED <<which, contactIds, engIn, eng, mnIn, mn, sv, rpIn, rp>>
  /\ UNCHANGED <<pgVars, mgVars, rnVars>>

BaSleep ==
  /\ which = "buildAssociations" /\ assoc.pc = "loop" /\ ga.pc = "sleep"
  /\ ga' = GaSleepStep(ga)
  /\ UNCHANGED <<which, contactIds, assoc, engIn, eng, mnIn, mn, sv, rpIn, rp>>
  /\ UNCHANGED <<pgVars, mgVars, rnVars>>

NextAssoc == BaCall \/ BaSleep

SpecAssoc == InitAssoc /\ [][NextAssoc]_vars

(* The answers the calls for a key got.                                    *)
RespsOf(key) == SelectSeq(assoc.resps, LAMBDA a : a.key = key)

(* C13: buildAssociations never returns a result when a batch call of a    *)
(* window came back without a successful result.                           *)
C13_FailedWindowFailsPage ==
  assoc.pc = "done" => \A n \in 1..Len(assoc.resps) : assoc.resps[n].resp # "error"

(* C14: the result has an entry for every contact id of the page and every *)
(* configured type; an id the response left out has the empty list, an id  *)
(* it named has its related ids; an absent id never fails the page (the    *)
(* page fails only on a call that got no answer).                          *)
C14_EntryForEveryContactAndType ==
  /\ assoc.pc = "done" =>
       /\ DOMAIN assoc.result = Range(contactIds)
       /\ \A id \in Range(contactIds) :
            /\ DOMAIN assoc.result[id] = Range(AssocKeys)
            /\ \A key \in Range(AssocKeys) :
                 /\ Len(RespsOf(key)) = 1
                 /\ assoc.result[id][key] =
                      IF id \in FromIds(contactIds, RespsOf(key)[1].resp)
                      THEN ToListOf(id) ELSE <<>>
  /\ assoc.pc = "failed" =>
       Len(ga.calls) = Len(RespsOf(AssocKeys[assoc.k])) + 1

(* The second contact of the page was left out of the deals response and   *)
(* of the emails response.                                                 *)
C14_Witness ==
  /\ assoc.pc = "done" /\ Len(contactIds) >= 2
  /\ RespsOf("deals")[1].resp = "odd" /\ RespsOf("emails")[1].resp = "none"
  /\ assoc.result[contactIds[1]]["deals"] # <<>>
  /\ assoc.result[contactIds[2]] = [key \in Range(AssocKeys) |-> <<>>]

(* ======================================================================= *)
(* Email engagement: resolveEmailEngagementEventTypes and                  *)
(* fetchContactEmailEngagementCounts inside main's loop over the pages     *)
(* ======================================================================= *)
(* String(t).toLowerCase().includes(word), for the event type names of the *)
(* model.                                                                  *)
LowerIncludes(t, word) ==
  IF t = "e_v2_email_opened" THEN word \in {"email", "open"}
  ELSE IF t = "E_V2_EMAIL_CLICKED" THEN word \in {"email", "click"}
  ELSE IF t = "e_form_opened" THEN word \in {"open"}
  ELSE FALSE

(* types.find(t => lower(t).includes('email') && lower(t).includes(word))  *)
FindType(types, word) ==
  LET hits == {i \in 1..Len(types) :
                 LowerIncludes(types[i], "email") /\ LowerIncludes(types[i], word)}
  IN IF hits = {} THEN Null
     ELSE types[CHOOSE i \in hits : \A j \in hits : i <= j]

Coalesce(a, b) == IF a # Null THEN a ELSE b

(* fetchEventTypes: [] when the response is not ok.                        *)
fetchEventTypes(outcome, types) == IF outcome = "ok" THEN types ELSE <<>>

resolveEmailEngagementEventTypes(openOverride, clickOverride, types) ==
  [eventTypeOpen |-> Coalesce(openOverride, FindType(types, "open")),
   eventTypeClick |-> Coalesce(clickOverride, FindType(types, "click"))]

ZeroCounts == [opens |-> 0, clicks |-> 0]

(* The for loop over the events of one page.                               *)
Tally(counts, results, eventTypeOpen, eventTypeClick) ==
  [opens |-> counts.opens + Cardinality({i \in 1..Len(results) : results[i] = eventTypeOpen}),
   clicks |-> counts.clicks +
                Cardinality({i \in 1..Len(results) : results[i] = eventTypeClick})]

(* The contact pages main walks, by contact id.                            *)
EngPages == << <<1, 2>>, <<3>> >>

EngContacts == UNION {Range(EngPages[p]) : p \in 1..Len(EngPages)}

(* An event log: no events, or 1..MaxLogPages pages, the first with an     *)
(* open, a click and another event, the later ones with an open.           *)
EventLogs ==
  {<< <<>> >>} \cup
  {[p \in 1..n |-> IF p = 1
                   THEN <<"e_v2_email_opened", "E_V2_EMAIL_CLICKED", "e_form_opened">>
                   ELSE <<"e_v2_email_opened">>] : n \in 1..MaxLogPages}

EventTypeLists ==
  {<<>>, <<"e_form_opened", "e_v2_email_opened", "E_V2_EMAIL_CLICKED">>,
   <<"e_v2_email_opened">>}

EngInit ==
  [pc |-> "resolve", eventTypeOpen |-> Null, eventTypeClick |-> Null, page |-> 1,
   c |-> 1, after |-> NoCursor, counts |-> ZeroCounts, map |-> <<>>, byPage |-> <<>>,
   failed |-> {}]

InitEngage ==
  /\ which = "emailEngagement"
  /\ PgIdle
  /\ BaIdle
  /\ MgIdle
  /\ RnIdle
  /\ AssocIdle
  /\ engIn \in [fetchEmailEngagementEvents : BOOLEAN,
                eventTypeEmailOpen : {Null, "e_v2_email_opened"},
                eventTypeEmailClick : {Null, "E_V2_EMAIL_CLICKED"},
                types : EventTypeLists,
                logs : [EngContacts -> EventLogs]]
  /\ eng = EngInit
  /\ MnIdle
  /\ SvIdle
  /\ RpIdle

(* main, lines 588-599: the event types are resolved, from the overrides   *)
(* or from the event-types call, which answers, answers not-ok, or         *)
(* rejects.                                                                *)
EngResolve ==
  /\ which = "emailEngagement" /\ eng.pc = "resolve"
  /\ IF ~engIn.fetchEmailEngagementEvents
     THEN eng' = [eng EXCEPT !.pc = "pages"]
     ELSE IF engIn.eventTypeEmailOpen # Null /\ engIn.eventTypeEmailClick # Null
     THEN eng' = [eng EXCEPT !.pc = "pages",
                             !.eventTypeOpen = engIn.eventTypeEmailOpen,
                             !.eventTypeClick = engIn.eventTypeEmailClick]
     ELSE \E outcome \in {"ok", "notOk", "reject"} :
            IF outcome = "reject"
            THEN eng' = [eng EXCEPT !.pc = "aborted"]
            ELSE LET resolved == resolveEmailEngagementEventTypes(
                                   engIn.eventTypeEmailOpen, engIn.eventTypeEmailClick,
                                   fetchEventTypes(outcome, engIn.types))
                 IN eng' = [eng EXCEPT !.pc = "pages",
                                       !.eventTypeOpen = resolved.eventTypeOpen,
                                       !.eventTypeClick = resolved.eventTypeClick]
  /\ UNCHANGED <<which, engIn, assoc, mnIn, mn, sv, rpIn, rp>>
  /\ UNCHANGED <<pgVars, baVars, mgVars, rnVars>>

(* main, lines 609 and 623-631: the next page, with or without counting.   *)
EngPage ==
  /\ which = "emailEngagement" /\ eng.pc = "pages"
  /\ eng' =
       IF eng.page > Len(EngPages) THEN [eng EXCEPT !.pc = "done"]
       ELSE IF engIn.fetchEmailEngagementEvents
               /\ (eng.eventTypeOpen # Null \/ eng.eventTypeClick # Null)
       THEN [eng EXCEPT !.pc = "read", !.c = 1, !.after = NoCursor,
                        !.counts = ZeroCounts,
                        !.map = [id \in Range(EngPages[eng.page]) |-> ZeroCounts]]
       ELSE [eng EXCEPT !.byPage = Append(@, <<>>), !.page = @ + 1]
  /\ UNCHANGED <<which, engIn, assoc, mnIn, mn, sv, rpIn, rp>>
  /\ UNCHANGED <<pgVars, baVars, mgVars, rnVars>>

(* One getPage call for the contact under way and what follows it up to    *)
(* the next wait: the tally, or the catch; map.set(contactId, counts) when *)
(* the contact's loop is left.                                             *)
EngRead ==
  /\ which = "emailEngagement" /\ eng.pc = "read"
  /\ \E outcome \in {"ok", "403", "500"} :
       LET contactId == EngPages[eng.page][eng.c] IN
       IF outcome = "ok"
       THEN LET results == UpstreamResults(engIn.logs[contactId], eng.after)
                next == UpstreamNext(engIn.logs[contactId], eng.after)
                counts == Tally(eng.counts, results, eng.eventTypeOpen, eng.eventTypeClick)
            IN IF next # NoCursor
               THEN eng' = [eng EXCEPT !.counts = counts, !.after = next,
                                       !.pc = "pageSleep"]
               ELSE eng' = [eng EXCEPT !.counts = counts, !.map[contactId] = counts,
                                       !.pc = "contactSleep"]
       ELSE eng' = [eng EXCEPT !.map[contactId] = eng.counts,
                               !.failed = @ \cup {contactId},
                               !.pc = "contactSleep"]
  /\ UNCHANGED <<which, engIn, assoc, mnIn, mn, sv, rpIn, rp>>
  /\ UNCHANGED <<pgVars, baVars, mgVars, rnVars>>

EngPageSleep ==
  /\ which = "emailEngagement" /\ eng.pc = "pageSleep"
  /\ eng' = [eng EXCEPT !.pc = "read"]
  /\ UNCHANGED <<which, engIn, assoc, mnIn, mn, sv, rpIn, rp>>
  /\ UNCHANGED <<pgVars, baVars, mgVars, rnVars>>

(* The wait after a contact; then the next contact, or the map is returned *)
(* and main goes on to its next page.                                      *)
EngContactSleep ==
  /\ which = "emailEngagement" /\ eng.pc = "contactSleep"
  /\ eng' =
       IF eng.c < Len(EngPages[eng.page])
       THEN [eng EXCEPT !.c = @ + 1, !.after = NoCursor, !.counts = ZeroCounts,
                        !.pc = "read"]
       ELSE [eng EXCEPT !.byPage = Append(@, eng.map), !.page = @ + 1, !.pc = "pages"]
  /\ UNCHANGED <<which, engIn, assoc, mnIn, mn, sv, rpIn, rp>>
  /\ UNCHANGED <<pgVars, baVars, mgVars, rnVars>>

NextEngage == EngResolve \/ EngPage \/ EngRead \/ EngPageSleep \/ EngContactSleep

SpecEngage == InitEngage /\ [][NextEngage]_vars

(* C15: a contact one of whose event-log reads failed, on whichever page   *)
(* of the log, is recorded with exactly {opens: 0, clicks: 0}.             *)
C15_FailedReadGivesZeroCounts ==
  \A p \in 1..Len(eng.byPage) :
    \A id \in DOMAIN eng.byPage[p] \cap eng.failed : eng.byPage[p][id] = ZeroCounts

(* C16: no failure of the event-types call or of an event-log read aborts  *)
(* the run.                                                                *)
C16_EngagementNeverAborts == eng.pc # "aborted"

(* ======================================================================= *)
(* main: the order of remote calls and throttle waits                      *)
(* ======================================================================= *)
(* mn.log lists the remote calls by name and the waits as "wait".  The     *)
(* account has mnIn.pipelines pipelines and mnIn.contactPages contact      *)
(* pages of one contact; the form fetch, when on, walks one form of        *)
(* mnIn.subPages pages on the sequential path; engagement, when on, finds  *)
(* its event types by the event-types call; the contact has deals and      *)
(* emails or not, and an event log of mnIn.logPages pages.  A remote call  *)
(* is answered ("ok"), answered with an error status ("error") or rejects  *)
(* ("throw").  The generated API clients and the fetch callers that test   *)
(* res.ok raise on an error status; getAssociationIds reads the body of    *)
(* whatever response it gets; fetchEventTypes returns [] on an error       *)
(* status.  mn.fatal records that a call of contact search, association    *)
(* batching, detail batching or the form fetch failed.                     *)
Outcomes == {"ok", "error", "throw"}

Call(m, name) == [m EXCEPT !.log = Append(@, name)]

Wait(m) == [m EXCEPT !.log = Append(@, "wait")]

(* The error reaches main().catch: process.exit(1).                        *)
Abort(m, name, listed) ==
  [Call(m, name) EXCEPT !.pc = "exited", !.exit = "1", !.fatal = @ \/ listed]

MnInit ==
  [pc |-> "start", n |-> 1, k |-> 1, page |-> 1, log |-> <<>>, exit |-> "none",
   fatal |-> FALSE, resolved |-> FALSE, resolves |-> 0, builds |-> 0, countings |-> 0,
   pagesStarted |-> 0, pagesDone |-> 0]

InitMain ==
  /\ which = "main"
  /\ PgIdle
  /\ BaIdle
  /\ MgIdle
  /\ RnIdle
  /\ AssocIdle
  /\ EngIdle
  /\ mnIn \in [token : BOOLEAN, pipelines : 0..MaxPipelines, engagement : BOOLEAN,
               forms : BOOLEAN, subPages : 1..2, contactPages : 1..MaxMainPages,
               deals : BOOLEAN, emails : BOOLEAN, logPages : 1..MaxLogPages]
  /\ mn = MnInit
  /\ SvIdle
  /\ RpIdle

MnFrame ==
  /\ UNCHANGED <<which, mnIn, assoc, engIn, eng, sv, rpIn, rp>>
  /\ UNCHANGED <<pgVars, baVars, mgVars, rnVars>>

(* main, lines 571-575: no access token, exit 1 before any call.           *)
MnStart ==
  /\ which = "main" /\ mn.pc = "start"
  /\ mn' = IF mnIn.token THEN [mn EXCEPT !.pc = "getAll"]
           ELSE [mn EXCEPT !.pc = "exited", !.exit = "1"]
  /\ MnFrame

(* fetchDealStageLabels: getAll, then per pipeline getById and a wait.     *)
MnStageLabels ==
  /\ which = "main" /\ mn.pc \in {"getAll", "getById", "stageSleep"}
  /\ \E o \in Outcomes :
       mn' = IF mn.pc = "getAll"
             THEN IF o # "ok" THEN Abort(mn, "pipelines.getAll", FALSE)
                  ELSE [Call(mn, "pipelines.getAll") EXCEPT
                          !.n = 1,
                          !.pc = IF mnIn.pipelines >= 1 THEN "getById" ELSE "resolve"]
             ELSE IF mn.pc = "getById"
             THEN IF o # "ok" THEN Abort(mn, "pipelines.getById", FALSE)
                  ELSE [Call(mn, "pipelines.getById") EXCEPT !.pc = "stageSleep"]
             ELSE [Wait(mn) EXCEPT
                     !.n = @ + 1,
                     !.pc = IF mn.n < mnIn.pipelines THEN "getById" ELSE "resolve"]
  /\ MnFrame

(* resolveEmailEngagementEventTypes: the event-types call, with no wait;   *)
(* an error status leaves the event types unresolved.                      *)
MnResolve ==
  /\ which = "main" /\ mn.pc = "resolve"
  /\ \E o \in Outcomes :
       mn' = IF ~mnIn.engagement THEN [mn EXCEPT !.pc = "forms"]
             ELSE IF o = "throw" THEN Abort(mn, "eventTypes.list", FALSE)
             ELSE [Call(mn, "eventTypes.list") EXCEPT
                     !.resolves = @ + 1, !.resolved = (o = "ok"), !.pc = "forms"]
  /\ MnFrame

(* buildFormSubmissionsByEmail on a sequential path: the forms call and    *)
(* its wait; the pages of the form with a wait between them; the wait      *)
(* after the form.                                                         *)
MnForms ==
  /\ which = "main" /\ mn.pc \in {"forms", "formsSleep", "subCall", "subSleep", "formSleep"}
  /\ \E o \in Outcomes :
       mn' = IF mn.pc = "forms"
             THEN IF ~mnIn.forms THEN [mn EXCEPT !.pc = "search"]
                  ELSE IF o # "ok"
                  THEN [Abort(mn, "forms.list", TRUE) EXCEPT !.builds = @ + 1]
                  ELSE [Call(mn, "forms.list") EXCEPT
                          !.builds = @ + 1, !.pc = "formsSleep"]
             ELSE IF mn.pc = "formsSleep"
             THEN [Wait(mn) EXCEPT !.k = 1, !.pc = "subCall"]
             ELSE IF mn.pc = "subCall"
             THEN IF o # "ok" THEN Abort(mn, "forms.submissions", TRUE)
                  ELSE [Call(mn, "forms.submissions") EXCEPT
                          !.pc = IF mn.k < mnIn.subPages THEN "subSleep" ELSE "formSleep"]
             ELSE IF mn.pc = "subSleep"
             THEN [Wait(mn) EXCEPT !.k = @ + 1, !.pc = "subCall"]
             ELSE [Wait(mn) EXCEPT !.pc = "search"]
  /\ MnFrame

(* searchContacts: doSearch and the yield of its page to main's loop body; *)
(* on resumption the wait before the next doSearch.                        *)
MnSearch ==
  /\ which = "main" /\ mn.pc \in {"search", "searchSleep"}
  /\ \E o \in Outcomes :
       mn' = IF mn.pc = "search"
             THEN IF o # "ok" THEN Abort(mn, "contacts.doSearch", TRUE)
                  ELSE [Call(mn, "contacts.doSearch") EXCEPT
                          !.n = 1, !.pagesStarted = @ + 1, !.pc = "assocCall"]
             ELSE [Wait(mn) EXCEPT !.page = @ + 1, !.pc = "search"]
  /\ MnFrame

(* buildAssociations: per type one batch call (a page is one window) and a *)
(* wait; a response with an error status is read like any other.          *)
MnAssociations ==
  /\ which = "main" /\ mn.pc \in {"assocCall", "assocSleep"}
  /\ \E o \in Outcomes :
       mn' = IF mn.pc = "assocCall"
             THEN IF o = "throw" THEN Abort(mn, "associations.batchRead", TRUE)
                  ELSE [Call(mn, "associations.batchRead") EXCEPT
                          !.fatal = @ \/ (o = "error"), !.pc = "assocSleep"]
             ELSE [Wait(mn) EXCEPT
                     !.n = @ + 1,
                     !.pc = IF mn.n < Len(AssocKeys) THEN "assocCall" ELSE "dealCall"]
  /\ MnFrame

(* fetchDealDetails and fetchEmailDetails: nothing for no ids, else one    *)
(* batch call and a wait.                                                  *)
MnDetails ==
  /\ which = "main" /\ mn.pc \in {"dealCall", "dealSleep", "emailCall", "emailSleep"}
  /\ \E o \in Outcomes :
       mn' = IF mn.pc = "dealCall"
             THEN IF ~mnIn.deals THEN [mn EXCEPT !.pc = "emailCall"]
                  ELSE IF o # "ok" THEN Abort(mn, "deals.batchRead", TRUE)
                  ELSE [Call(mn, "deals.batchRead") EXCEPT !.pc = "dealSleep"]
             ELSE IF mn.pc = "dealSleep"
             THEN [Wait(mn) EXCEPT !.pc = "emailCall"]
             ELSE IF mn.pc = "emailCall"
             THEN IF ~mnIn.emails THEN [mn EXCEPT !.k = 1, !.pc = "eventCall"]
                  ELSE IF o # "ok" THEN Abort(mn, "emails.batchRead", TRUE)
                  ELSE [Call(mn, "emails.batchRead") EXCEPT !.pc = "emailSleep"]
             ELSE [Wait(mn) EXCEPT !.k = 1, !.pc = "eventCall"]
  /\ MnFrame

(* Variant: the counts are fetched for the first page only.               *)
StartCountingFirstPageOnly(m) ==
  IF m.countings = 0 THEN [m EXCEPT !.countings = @ + 1, !.k = 1, !.pc = "eventRead"]
  ELSE [m EXCEPT !.pc = "updateCall"]

(* main calls fetchContactEmailEngagementCounts with the ids of the page.  *)
StartCounting(m) == [m EXCEPT !.countings = @ + 1, !.k = 1, !.pc = "eventRead"]

(* main, lines 623-631, and fetchContactEmailEngagementCounts for the page *)
(* under way: the event-log pages of the contact with a wait between them; *)
(* the wait after the contact, also when a read failed.                    *)
MnEngagement ==
  /\ which = "main"
  /\ mn.pc \in {"eventCall", "eventRead", "eventPageSleep", "eventContactSleep"}
  /\ \E o \in Outcomes :
       mn' = IF mn.pc = "eventCall"
             THEN IF mnIn.engagement /\ mn.resolved
                  THEN StartCounting(mn)
                  ELSE [mn EXCEPT !.pc = "updateCall"]
             ELSE IF mn.pc = "eventRead"
             THEN [Call(mn, "events.getPage") EXCEPT
                     !.pc = IF o = "ok" /\ mn.k < mnIn.logPages
                            THEN "eventPageSleep" ELSE "eventContactSleep"]
             ELSE IF mn.pc = "eventPageSleep"
             THEN [Wait(mn) EXCEPT !.k = @ + 1, !.pc = "eventRead"]
             ELSE [Wait(mn) EXCEPT !.pc = "updateCall"]
  /\ MnFrame

(* setAnalysisCompletedDate: the batch update and its wait; then the page  *)
(* is done and the generator is resumed, or the loop is over and main      *)
(* returns.                                                                *)
MnUpdate ==
  /\ which = "main" /\ mn.pc \in {"updateCall", "updateSleep"}
  /\ \E o \in Outcomes :
       mn' = IF mn.pc = "updateCall"
             THEN IF o # "ok" THEN Abort(mn, "contacts.batchUpdate", FALSE)
                  ELSE [Call(mn, "contacts.batchUpdate") EXCEPT !.pc = "updateSleep"]
             ELSE IF mn.page < mnIn.contactPages
             THEN [Wait(mn) EXCEPT !.pagesDone = @ + 1, !.pc = "searchSleep"]
             ELSE [Wait(mn) EXCEPT !.pagesDone = @ + 1, !.pc = "exited", !.exit = "0"]
  /\ MnFrame

NextMain ==
  \/ MnStart \/ MnStageLabels \/ MnResolve \/ MnForms \/ MnSearch \/ MnAssociations
  \/ MnDetails \/ MnEngagement \/ MnUpdate

SpecMain == InitMain /\ [][NextMain]_vars

(* C17: no two remote calls are issued back to back: between a call and    *)
(* the next call there is a wait.                                          *)
C17_WaitAfterEveryCall ==
  \A i \in 1..(Len(mn.log) - 1) : mn.log[i] = "wait" \/ mn.log[i + 1] = "wait"

(* ======================================================================= *)
(* saveFormSubmissionsCache, step by step                                  *)
(* ======================================================================= *)
(* fs.mkdir, then fs.writeFile, which opens the file for writing (the file *)
(* is created or cut to length 0) and then writes the document; the        *)
(* process can end at any of these steps.  A file cut short is a document  *)
(* JSON.parse rejects: kind "malformed".                                   *)
SavedBefore ==
  {FileOf("absent")} \cup
  {saveFormSubmissionsCache(m) : m \in {<<>>, [e \in {"a@x.com"} |-> <<OldEntry>>]}}

SvInit(file, byEmail) == [pc |-> "mkdir", before |-> file, byEmail |-> byEmail]

InitSave ==
  /\ which = "saveFormSubmissionsCache"
  /\ PgIdle
  /\ BaIdle
  /\ MgIdle
  /\ cfg = <<>> /\ formsUpstream = <<>> /\ upstream = <<>>
  /\ run = <<>> /\ runNo = 0 /\ history = <<>>
  /\ AssocIdle
  /\ EngIdle
  /\ MnIdle
  /\ RpIdle
  /\ cacheFile \in SavedBefore
  /\ \E byEmail \in ByEmailMaps(200, MaxFresh) : sv = SvInit(cacheFile, byEmail)

SvFrame ==
  /\ UNCHANGED <<which, cfg, formsUpstream, upstream, run, runNo, history>>
  /\ UNCHANGED <<pgVars, baVars, mgVars, assoc, engIn, eng, mnIn, mn, rpIn, rp>>

SvMkdir ==
  /\ which = "saveFormSubmissionsCache" /\ sv.pc = "mkdir"
  /\ \E ok \in BOOLEAN : sv' = [sv EXCEPT !.pc = IF ok THEN "open" ELSE "failed"]
  /\ UNCHANGED cacheFile
  /\ SvFrame

SvOpen ==
  /\ which = "saveFormSubmissionsCache" /\ sv.pc = "open"
  /\ \E ok \in BOOLEAN :
       IF ok THEN cacheFile' = FileOf("malformed") /\ sv' = [sv EXCEPT !.pc = "write"]
       ELSE UNCHANGED cacheFile /\ sv' = [sv EXCEPT !.pc = "failed"]
  /\ SvFrame

SvWrite ==
  /\ which = "saveFormSubmissionsCache" /\ sv.pc = "write"
  /\ \E ok \in BOOLEAN :
       IF ok THEN /\ cacheFile' = saveFormSubmissionsCache(sv.byEmail)
                  /\ sv' = [sv EXCEPT !.pc = "done"]
       ELSE UNCHANGED cacheFile /\ sv' = [sv EXCEPT !.pc = "failed"]
  /\ SvFrame

(* The process is killed.                                                  *)
SvCrash ==
  /\ which = "saveFormSubmissionsCache" /\ sv.pc \in {"mkdir", "open", "write"}
  /\ sv' = [sv EXCEPT !.pc = "crashed"]
  /\ UNCHANGED cacheFile
  /\ SvFrame

NextSave == SvMkdir \/ SvOpen \/ SvWrite \/ SvCrash

SpecSave == InitSave /\ [][NextSave]_vars

(* C18: at every instant of the save, a crash included, the file holds     *)
(* either what was there before (or is absent as before) or the complete   *)
(* new cache.                                                              *)
C18_SaveIsAtomic ==
  cacheFile \in {sv.before, saveFormSubmissionsCache(sv.byEmail)}

(* ======================================================================= *)
(* Detail batches and the deal lines of the report                         *)
(* ======================================================================= *)
(* A properties object is a function from the keys it has to a string or   *)
(* Null; a key it lacks reads as undefined, which ?? treats like null.     *)
Get(p, name) == IF name \in DOMAIN p THEN p[name] ELSE Null

(* obj.properties || {}                                                    *)
PropsOf(obj) == IF "properties" \in DOMAIN obj THEN obj.properties ELSE <<>>

(* The place of the last result with the id: a later map.set wins.         *)
LastOf(results, id) ==
  CHOOSE i \in 1..Len(results) :
    /\ results[i].id = id
    /\ \A j \in (i + 1)..Len(results) : results[j].id # id

(* fetchDealDetails for ids that fit one batch: no call for no ids, else   *)
(* the map built from the results of the batch read.                       *)
fetchDealDetails(dealIds, results) ==
  IF dealIds = <<>> THEN <<>>
  ELSE [id \in {results[i].id : i \in 1..Len(results)} |->
          LET props == PropsOf(results[LastOf(results, id)])
          IN [dealname |-> Coalesce(Get(props, "dealname"), "(no name)"),
              amount |-> Coalesce(Get(props, "amount"), "(no amount)"),
              dealstage |-> Coalesce(Get(props, "dealstage"), "(no stage)")]]

(* { ...defaults, ...p }: a key p has, null or not, takes p's value.       *)
SpreadOver(defaults, p) ==
  [name \in DOMAIN defaults \cup DOMAIN p |->
     IF name \in DOMAIN p THEN p[name] ELSE defaults[name]]

fetchEmailDetails(emailIds, results) ==
  IF emailIds = <<>> THEN <<>>
  ELSE [id \in {results[i].id : i \in 1..Len(results)} |->
          LET p == PropsOf(results[LastOf(results, id)])
          IN SpreadOver([hs_timestamp |-> Coalesce(Get(p, "hs_timestamp"), Null),
                         hs_email_subject |->
                           Coalesce(Get(p, "hs_email_subject"), "(no subject)"),
                         hs_email_status |->
                           Coalesce(Get(p, "hs_email_status"), "(unknown)"),
                         hs_email_direction |->
                           Coalesce(Get(p, "hs_email_direction"), Null)], p)]

UnknownDeal == [dealname |-> "(unknown)", amount |-> "(unknown)", dealstage |-> "(unknown)"]

Truthy(v) == v # Null /\ v # ""

(* Variant: a deal the detail batch did not return is left out.            *)
DealLinesKnownOnly(dealIds, dealDetails, stageIdToLabel) ==
  LET known == SelectSeq(dealIds, LAMBDA id : id \in DOMAIN dealDetails) IN
  [i \in 1..Len(known) |->
     LET details == dealDetails[known[i]]
         stageName == IF Truthy(details.dealstage)
                      THEN Coalesce(Get(stageIdToLabel, details.dealstage),
                                    details.dealstage)
                      ELSE "(no stage)"
     IN [dealId |-> known[i], dealname |-> details.dealname,
         amount |-> details.amount, stage |-> stageName]]

(* main, lines 664-669: one line per deal id of the contact.               *)
DealLines(dealIds, dealDetails, stageIdToLabel) ==
  [i \in 1..Len(dealIds) |->
     LET details == IF dealIds[i] \in DOMAIN dealDetails
                    THEN dealDetails[dealIds[i]] ELSE UnknownDeal
         stageName == IF Truthy(details.dealstage)
                      THEN Coalesce(Get(stageIdToLabel, details.dealstage),
                                    details.dealstage)
                      ELSE "(no stage)"
     IN [dealId |-> dealIds[i], dealname |-> details.dealname,
         amount |-> details.amount, stage |-> stageName]]

(* What fetchDealStageLabels built: one stage with a label.                *)
StageLabels == [stage \in {"closedwon"} |-> "Closed Won"]

(* The page of the report: contacts 1, 2, 3.                               *)
ReportContacts == <<1, 2, 3>>

DealLists == UNION {[1..n -> {"d1", "d2"}] : n \in 0..MaxDeals}

(* What the deal batch may hold for d1 and d2.                             *)
D1Variants ==
  {[id |-> "d1", properties |-> [dealname |-> "Acme", amount |-> "100",
                                 dealstage |-> "closedwon"]],
   [id |-> "d1", properties |-> [dealname |-> Null, amount |-> Null,
                                 dealstage |-> "stage9"]],
   [id |-> "d1", properties |-> [dealname |-> "Acme"]],
   [id |-> "d1"]}

D2 == [id |-> "d2", properties |-> [dealname |-> "Beta", amount |-> Null,
                                    dealstage |-> Null]]

E1Variants ==
  {[id |-> "e1", properties |-> [hs_timestamp |-> "2024-01-01", hs_email_subject |-> "Hi",
                                 hs_email_status |-> "SENT",
                                 hs_email_direction |-> "EMAIL"]],
   [id |-> "e1", properties |-> [hs_email_subject |-> Null, hs_email_status |-> "SENT"]],
   [id |-> "e1"]}

RpInit ==
  [pc |-> "dealDetails", dealDetails |-> <<>>, emailDetails |-> <<>>, report |-> <<>>]

InitReport ==
  /\ which = "report"
  /\ PgIdle
  /\ BaIdle
  /\ MgIdle
  /\ RnIdle
  /\ AssocIdle
  /\ EngIdle
  /\ MnIdle
  /\ SvIdle
  /\ rpIn \in [deals : [Range(ReportContacts) -> DealLists],
               returned : SUBSET {"d1", "d2"},
               d1 : D1Variants,
               e1 : E1Variants]
  /\ rp = RpInit

(* associationsByContact of the page: the deals drawn, and one email e1    *)
(* for the first contact.                                                  *)
EmailsOf(c) == IF c = ReportContacts[1] THEN <<"e1">> ELSE <<>>

AllDealIds == Flatten([k \in 1..Len(ReportContacts) |-> rpIn.deals[ReportContacts[k]]])

AllEmailIds == Flatten([k \in 1..Len(ReportContacts) |-> EmailsOf(ReportContacts[k])])

(* The results of the deal batch read: the requested deals it returns.     *)
DealResults ==
  SelectSeq(<<rpIn.d1, D2>>,
            LAMBDA d : d.id \in rpIn.returned /\ d.id \in Range(AllDealIds))

RpFrame ==
  /\ UNCHANGED <<which, rpIn, assoc, engIn, eng, mnIn, mn, sv>>
  /\ UNCHANGED <<pgVars, baVars, mgVars, rnVars>>

RpDealDetails ==
  /\ which = "report" /\ rp.pc = "dealDetails"
  /\ \E ok \in BOOLEAN :
       rp' = IF ~ok /\ AllDealIds # <<>> THEN [rp EXCEPT !.pc = "failed"]
             ELSE [rp EXCEPT !.dealDetails = fetchDealDetails(AllDealIds, DealResults),
                             !.pc = "emailDetails"]
  /\ RpFrame

RpEmailDetails ==
  /\ which = "report" /\ rp.pc = "emailDetails"
  /\ \E ok \in BOOLEAN :
       rp' = IF ~ok THEN [rp EXCEPT !.pc = "failed"]
             ELSE [rp EXCEPT !.emailDetails = fetchEmailDetails(AllEmailIds, <<rpIn.e1>>),
                             !.pc = "report"]
  /\ RpFrame

(* The loop over the contacts of the page, as far as the deal lines go.    *)
RpReport ==
  /\ which = "report" /\ rp.pc = "report"
  /\ rp' = [rp EXCEPT !.report = [c \in Range(ReportContacts) |->
                                    DealLines(rpIn.deals[c], rp.dealDetails, StageLabels)],
                      !.pc = "done"]
  /\ RpFrame

NextReport == RpDealDetails \/ RpEmailDetails \/ RpReport

SpecReport == InitReport /\ [][NextReport]_vars

(* C19: every attribute of every detail record fetchDealDetails and        *)
(* fetchEmailDetails return is non-null.                                   *)
C19_DetailAttributesNonNull ==
  /\ \A id \in DOMAIN rp.dealDetails :
       \A name \in DOMAIN rp.dealDetails[id] : rp.dealDetails[id][name] # Null
  /\ \A id \in DOMAIN rp.emailDetails :
       \A name \in DOMAIN rp.emailDetails[id] : rp.emailDetails[id][name] # Null

(* What the batch returned for a deal id, as the report has to show it.    *)
ReturnedDeal(id) == IF id = "d1" THEN rpIn.d1 ELSE D2

Shown(obj, name, placeholder) ==
  IF "properties" \in DOMAIN obj /\ name \in DOMAIN obj.properties
     /\ obj.properties[name] # Null
  THEN obj.properties[name] ELSE placeholder

(* C20: for every contact of the page the report has one deal line per id  *)
(* of the contact's deal list, in order: the returned attributes (or their *)
(* placeholders) when the batch returned the id, "(unknown)" throughout    *)
(* when it did not; the stage is the label when the stage id is mapped,    *)
(* else the raw stage id (or its placeholder).                             *)
C20_OneDealLinePerAssociatedDeal ==
  rp.pc = "done" =>
    \A c \in Range(ReportContacts) :
      /\ Len(rp.report[c]) = Len(rpIn.deals[c])
      /\ \A i \in 1..Len(rpIn.deals[c]) :
           LET id == rpIn.deals[c][i]
               line == rp.report[c][i]
               obj == ReturnedDeal(id)
               stage == Shown(obj, "dealstage", "(no stage)")
           IN /\ line.dealId = id
              /\ IF id \in rpIn.returned
                 THEN /\ line.dealname = Shown(obj, "dealname", "(no name)")
                      /\ line.amount = Shown(obj, "amount", "(no amount)")
                      /\ line.stage = IF stage = "closedwon" THEN "Closed Won" ELSE stage
                 ELSE /\ line.dealname = "(unknown)" /\ line.amount = "(unknown)"
                      /\ line.stage = "(unknown)"

(* The scenario of the specification: contact 1 -> [d1, d2], contact 2 ->  *)
(* [], contact 3 -> [d1]; only d1 is returned, named Acme, stage closedwon.*)
C20_Witness ==
  /\ rp.pc = "done"
  /\ rpIn.deals = (1 :> <<"d1", "d2">>) @@ (2 :> <<>>) @@ (3 :> <<"d1">>)
  /\ rpIn.returned = {"d1"}
  /\ Len(rp.report[1]) = 2 /\ Len(rp.report[2]) = 0 /\ Len(rp.report[3]) = 1
  /\ rp.report[1][1] = [dealId |-> "d1", dealname |-> "Acme", amount |-> "100",
                        stage |-> "Closed Won"]
  /\ rp.report[1][2] = [dealId |-> "d2", dealname |-> "(unknown)",
                        amount |-> "(unknown)", stage |-> "(unknown)"]

(* ======================================================================= *)
(* Claims about main                                                       *)
(* ======================================================================= *)
(* C21: the process exits 0 only when every contact page was processed to  *)
(* the end and no call of contact search, association batching, detail     *)
(* batching or the form fetch failed; without a credential it exits        *)
(* non-zero before any remote call; a failure of one of those calls ends   *)
(* the run at once with a non-zero exit, no later page being processed.    *)
C21_ExitZeroOnlyOnFullSuccess ==
  /\ mn.exit = "0" => mn.pagesDone = mnIn.contactPages /\ ~mn.fatal
  /\ ~mnIn.token => mn.log = <<>> /\ mn.exit \in {"none", "1"}
  /\ mn.fatal => mn.exit = "1" /\ mn.pc = "exited"

(* C25: in every run the form-submission cache build and the engagement    *)
(* counter are each invoked exactly once (when switched on), not once per  *)
(* contact page.                                                           *)
C25_EachInvokedOncePerRun ==
  /\ mn.builds <= 1
  /\ mn.countings <= 1
  /\ mn.exit = "0" =>
       /\ mnIn.forms => mn.builds = 1
       /\ mnIn.engagement /\ mn.resolved => mn.countings = 1

(* C25, amended: the cache build (when switched on) and the resolution of  *)
(* the event types (when engagement is switched on) are each invoked once  *)
(* per run, before the first contact search; the engagement counter is     *)
(* invoked once per contact page, inside the page loop, when engagement is *)
(* switched on and the event types were found.                             *)
C25_BuildOnceCountPerPage ==
  /\ [](/\ mn.builds <= 1 /\ mn.resolves <= 1
        /\ mn.countings <= mn.pagesStarted
        /\ mn.pagesStarted - mn.countings <= 1
             \/ ~(mnIn.engagement /\ mn.resolved)
        /\ mn.exit = "0" =>
             /\ mn.builds = (IF mnIn.forms THEN 1 ELSE 0)
             /\ mn.resolves = (IF mnIn.engagement THEN 1 ELSE 0)
             /\ mn.countings = (IF mnIn.engagement /\ mn.resolved
                                THEN mnIn.contactPages ELSE 0))
  /\ [][(mn'.builds # mn.builds \/ mn'.resolves # mn.resolves) =>
          mn.pagesStarted = 0]_vars

(* A run over two contact pages ended: one cache build, one resolution,    *)
(* two invocations of the engagement counter.                              *)
C25_Witness ==
  /\ mn.exit = "0" /\ mnIn.contactPages = 2
  /\ mnIn.forms /\ mnIn.engagement /\ mn.resolved
  /\ mn.builds = 1 /\ mn.resolves = 1 /\ mn.countings = 2

====
